---- MODULE Spec2Model ----
(***************************************************************************)
(* fabric.Group (src/src/shapes/group.class.js): membership operations,    *)
(* the enter/exit protocol, the layout pass and its bubbling, and the      *)
(* dirty-flag fast path (invalidate).                                       *)
(*                                                                         *)
(* Geometry is modelled for objects without rotation, scale or skew, so a  *)
(* transform matrix is a translation: calcOwnMatrix of an object is the    *)
(* translation to its center in the plane of its owner, and               *)
(* calcTransformMatrix is the sum of the centers up the `group` chain.     *)
(* Objects keep left/top (origin left/top, strokeWidth 0); the center is   *)
(* left + width / 2, top + height / 2.                                     *)
(***************************************************************************)
EXTENDS Integers, Sequences, FiniteSets, TLC

\* ------------------------------------------------------------------ bounds
\* most objects passed to one add / insertAt / remove call or constructor
MaxArgs == 2
\* most operations in one run
MaxOps == 3
\* most points of one path
MaxPoints == 4

\* ------------------------------------------------------------- the objects
Leaves == {"o1", "o2"}
Groups == {"g1", "g2", "g3"}
Ids == Leaves \cup Groups
None == "none"
TheCanvas == "canvas"

Layouts == {"fit-content", "fit-content-lazy", "fixed", "clip-path"}
LayoutTypes ==
  {"initialization", "object_modified", "added", "removed", "layout_change",
   "imperative", "progress"}

VARIABLES
  objects,            \* group -> its child list (_objects)
  group,              \* object -> the group it is in (object.group), or None
  canvas,             \* object -> TheCanvas or None (object.canvas)
  activeObjects,      \* group -> _activeObjects
  firstLayoutDone,    \* group -> _firstLayoutDone
  layoutInProgress,   \* group -> _layoutInProgress
  dirty,              \* object -> dirty
  layout,             \* group -> layout
  left, top,          \* object -> left, top in the plane of its owner
  width, height,      \* object -> width, height
  clipPath,           \* group -> its clip region
  ownCaching,         \* group -> ownCaching
  built,              \* group -> the constructor has run
  preserveObjectStacking, \* canvas.preserveObjectStacking
  activeObject,       \* canvas.getActiveObject(), or None
  selected,           \* the object list of the active selection
  props,              \* object -> its fill, angle and foo
  selection,          \* the active selection's fill, angle, foo and dirty
  interactive,        \* group -> interactive
  watching,           \* group -> object -> times its listeners are on it
  disposed,           \* group -> dispose has run on it
  nan,                \* group -> its width, height or position is undefined
  registry,           \* Registry#registry: key -> the value registered
  ops,                \* number of operations so far
  lastOp              \* the last operation and how it ended

vars ==
  <<objects, group, canvas, activeObjects, firstLayoutDone, layoutInProgress,
    dirty, layout, left, top, width, height, clipPath, ownCaching, built,
    preserveObjectStacking, activeObject, selected, props,
    selection, interactive, watching, disposed, nan, registry, ops,
    lastOp>>

\* The program state as one value; the operators below map a state to a state.
\* An operation also leaves in it: trace, its _applyLayoutStrategy calls;
\* hooks, its onLayout calls; steps, what its layout passes did, in order;
\* err, the error it threw; ret, what it returned.
St ==
  [objects |-> objects, group |-> group, canvas |-> canvas,
   activeObjects |-> activeObjects, firstLayoutDone |-> firstLayoutDone,
   layoutInProgress |-> layoutInProgress, dirty |-> dirty, layout |-> layout,
   left |-> left, top |-> top, width |-> width, height |-> height,
   clipPath |-> clipPath, ownCaching |-> ownCaching, built |-> built,
   preserveObjectStacking |-> preserveObjectStacking,
   activeObject |-> activeObject, selected |-> selected, props |-> props,
   selection |-> selection, interactive |-> interactive,
   watching |-> watching, disposed |-> disposed, nan |-> nan,
   registry |-> registry,
   trace |-> <<>>, hooks |-> <<>>, steps |-> <<>>, err |-> "none",
   ret |-> <<>>]

\* ------------------------------------------------------- sequence helpers
Range(seq) == {seq[i] : i \in 1..Len(seq)}

RECURSIVE IndexOfFrom(_, _, _)
IndexOfFrom(seq, x, i) ==
  IF i > Len(seq) THEN 0
  ELSE IF seq[i] = x THEN i ELSE IndexOfFrom(seq, x, i + 1)

\* Array.prototype.indexOf, 1-based; 0 when absent
IndexOf(seq, x) == IndexOfFrom(seq, x, 1)

\* Array.prototype.splice(index, 1)
RemoveAt(seq, i) == SubSeq(seq, 1, i - 1) \o SubSeq(seq, i + 1, Len(seq))

\* Array.prototype.splice(index, 0, ...items), index 0-based as in the source
InsertSeq(seq, index, items) ==
  LET at == IF index > Len(seq) THEN Len(seq) ELSE index
  IN SubSeq(seq, 1, at) \o items \o SubSeq(seq, at + 1, Len(seq))

Count(seq, x) == Cardinality({i \in 1..Len(seq) : seq[i] = x})

Min2(a, b) == IF a < b THEN a ELSE b
Max2(a, b) == IF a > b THEN a ELSE b
Half(x) == x \div 2

\* ----------------------------------------------------------------- points
Pt(x, y) == [x |-> x, y |-> y]
PtAdd(a, b) == Pt(a.x + b.x, a.y + b.y)
PtSub(a, b) == Pt(a.x - b.x, a.y - b.y)

\* the linear part of an own matrix with the given angle, applied to a
\* vector, and its inverse; the angles of the model are 0 and a quarter turn
\* (the other values are those the tests set on objects that no box is
\* computed from)
Rotate(angle, p) == IF angle = 90 THEN Pt(-p.y, p.x) ELSE p
InvRotate(angle, p) == IF angle = 90 THEN Pt(p.y, -p.x) ELSE p

\* fabric.Object#getRelativeCenterPoint: the center in the owner's plane,
\* the left/top corner being the origin the object is turned about
GetRelativeCenterPoint(s, x) ==
  PtAdd(Pt(s.left[x], s.top[x]),
        Rotate(s.props[x].angle, Pt(Half(s.width[x]), Half(s.height[x]))))

\* fabric.Object#calcOwnMatrix: its translation, to the object's own center
CalcOwnMatrix(s, x) == GetRelativeCenterPoint(s, x)

\* fabric.Object#calcTransformMatrix: own matrix composed with the owners'
RECURSIVE CalcTransformMatrix(_, _)
CalcTransformMatrix(s, x) ==
  IF s.group[x] = None THEN CalcOwnMatrix(s, x)
  ELSE PtAdd(CalcTransformMatrix(s, s.group[x]), CalcOwnMatrix(s, x))

\* fabric.Object#setPositionByOrigin(center, 'center', 'center')
SetPositionByOrigin(s, x, c) ==
  [s EXCEPT
     !.left[x] =
       c.x - Rotate(s.props[x].angle, Pt(Half(s.width[x]), Half(s.height[x]))).x,
     !.top[x] =
       c.y - Rotate(s.props[x].angle, Pt(Half(s.width[x]), Half(s.height[x]))).y]

\* fabric.util.applyTransformToObject for a translation: the new center
ApplyTransformToObject(s, x, m) == SetPositionByOrigin(s, x, m)

\* fabric.Object#isDescendantOf: x has target among its owners
RECURSIVE IsDescendantOf(_, _, _)
IsDescendantOf(s, x, target) ==
  IF s.group[x] = None THEN FALSE
  ELSE IF s.group[x] = target THEN TRUE
  ELSE IsDescendantOf(s, s.group[x], target)

\* isOnACache that looks at the group's own cache only
IsOnOwnCache(s, g) == s.ownCaching[g]

\* Group#isOnACache
RECURSIVE IsOnACache(_, _)
IsOnACache(s, g) ==
  s.ownCaching[g] \/ (s.group[g] # None /\ IsOnACache(s, s.group[g]))

\* --------------------------------------------------------- clip regions
NoClip ==
  [present |-> FALSE, absolutePositioned |-> FALSE,
   left |-> 0, top |-> 0, width |-> 0, height |-> 0]

ClipCenter(c) == Pt(c.left + Half(c.width), c.top + Half(c.height))

\* ------------------------------------------------------- layout contexts
NoOptions ==
  [given |-> FALSE, layout |-> "fit-content", hasPos |-> FALSE, left |-> 0,
   top |-> 0, hasSize |-> FALSE, width |-> 0, height |-> 0, group |-> None,
   canvas |-> None, clipPath |-> NoClip, interactive |-> FALSE, angle |-> 0]

\* the `context` argument of triggerLayout: values to use instead of the
\* computed ones
NoOverride ==
  [given |-> FALSE, layout |-> None, hasCenter |-> FALSE, centerX |-> 0,
   centerY |-> 0, hasSize |-> FALSE, width |-> 0, height |-> 0,
   hasCorrection |-> FALSE, correctionX |-> 0, correctionY |-> 0]

Context(type) ==
  [type |-> type, targets |-> <<>>, options |-> NoOptions,
   objectsRelativeToGroup |-> FALSE, context |-> NoOverride,
   prevLayout |-> None, path |-> <<>>]

\* -------------------------------------------------------- bounding boxes
\* the corners a and b of an object's box in getObjectsBoundingBox, lines
\* 890-902 (angle 0, no fabric.Layer and no 'fill-parent' child)
CornerA(s, object) ==
  PtSub(GetRelativeCenterPoint(s, object),
        Pt(Half(s.width[object]), Half(s.height[object])))
CornerB(s, object) ==
  PtAdd(GetRelativeCenterPoint(s, object),
        Pt(Half(s.width[object]), Half(s.height[object])))

\* lines 903-911: min and max after one more object
ExtendBox(acc, a, b) ==
  IF acc.first
  THEN [first |-> FALSE,
        min |-> Pt(Min2(a.x, b.x), Min2(a.y, b.y)),
        max |-> Pt(Max2(a.x, b.x), Max2(a.y, b.y))]
  ELSE [first |-> FALSE,
        min |-> Pt(Min2(acc.min.x, Min2(a.x, b.x)),
                   Min2(acc.min.y, Min2(a.y, b.y))),
        max |-> Pt(Max2(acc.max.x, Max2(a.x, b.x)),
                   Max2(acc.max.y, Max2(a.y, b.y)))]

\* the objects.forEach loop of getObjectsBoundingBox
RECURSIVE BoundingBoxLoop(_, _, _, _)
BoundingBoxLoop(s, objs, i, acc) ==
  IF i > Len(objs) THEN acc
  ELSE BoundingBoxLoop(s, objs, i + 1,
         ExtendBox(acc, CornerA(s, objs[i]), CornerB(s, objs[i])))

\* no result; as the `{}` of prepareBoundingBox it has neither a center
\* nor a size (hasCenter, hasSize: the fields are defined)
NoResult ==
  [ok |-> FALSE, hasCenter |-> FALSE, centerX |-> 0, centerY |-> 0,
   correctionX |-> 0, correctionY |-> 0, hasSize |-> FALSE, width |-> 0,
   height |-> 0, offsetX |-> 0, offsetY |-> 0]

\* lines 914-927: size, and center and offset sent to the plane that
\* contains the group (calcOwnMatrix: the turn by the group's angle, then
\* the translation own to its center)
BoxResult(acc, own, angle) ==
  [ok |-> TRUE, hasCenter |-> TRUE, hasSize |-> TRUE,
   centerX |-> Rotate(angle, Pt(acc.min.x + Half(acc.max.x - acc.min.x),
                                acc.min.y + Half(acc.max.y - acc.min.y))).x
               + own.x,
   centerY |-> Rotate(angle, Pt(acc.min.x + Half(acc.max.x - acc.min.x),
                                acc.min.y + Half(acc.max.y - acc.min.y))).y
               + own.y,
   correctionX |-> 0, correctionY |-> 0,
   width |-> acc.max.x - acc.min.x, height |-> acc.max.y - acc.min.y,
   offsetX |-> Rotate(angle, acc.min).x + own.x,
   offsetY |-> Rotate(angle, acc.min).y + own.y]

\* getObjectsBoundingBox that makes a box of no object too
GetObjectsBoundingBoxOfAny(s, g, objs) ==
  BoxResult(
    BoundingBoxLoop(s, objs, 1,
      [first |-> TRUE, min |-> Pt(0, 0), max |-> Pt(0, 0)]),
    CalcOwnMatrix(s, g), s.props[g].angle)

\* Group#getObjectsBoundingBox(objects)
GetObjectsBoundingBox(s, g, objs) ==
  IF Len(objs) = 0 THEN NoResult
  ELSE BoxResult(
         BoundingBoxLoop(s, objs, 1,
           [first |-> TRUE, min |-> Pt(0, 0), max |-> Pt(0, 0)]),
         CalcOwnMatrix(s, g), s.props[g].angle)

\* prepareInitialBoundingBox, lines 811-851, along one axis, with originX
\* 'left', originY 'top' (origin = -0.5, originT = 0) and strokeWidth 0:
\* the size, center and correction
InitialAxis(hasPos, hasSize, pos, size, bboxCenter, bboxSize) ==
  LET sizeAfter == IF hasSize THEN size ELSE bboxSize
      centerCorrection == IF hasSize THEN Half(bboxSize) ELSE 0
      center == IF hasPos THEN pos + Half(sizeAfter)
                ELSE bboxCenter - centerCorrection
      offsetCorrection ==
        IF hasPos
        THEN center - bboxCenter + (IF hasSize THEN Half(bboxSize) ELSE 0)
        ELSE -(IF hasSize THEN Half(sizeAfter) ELSE 0)
      correction == (IF hasSize THEN -Half(sizeAfter) ELSE 0) + offsetCorrection
  IN [size |-> sizeAfter, center |-> center, correction |-> correction]

InitialBox(x, y) ==
  [ok |-> TRUE, hasCenter |-> TRUE, hasSize |-> TRUE,
   centerX |-> x.center, centerY |-> y.center,
   correctionX |-> x.correction, correctionY |-> y.correction,
   width |-> x.size, height |-> y.size, offsetX |-> 0, offsetY |-> 0]

InitialBoxFrom(s, g, options, bbox) ==
  InitialBox(
    InitialAxis(options.hasPos, options.hasSize, s.left[g], s.width[g],
                bbox.centerX, bbox.width),
    InitialAxis(options.hasPos, options.hasSize, s.top[g], s.height[g],
                bbox.centerY, bbox.height))

\* Group#prepareInitialBoundingBox
PrepareInitialBoundingBox(s, g, objs, context) ==
  IF (context.options.hasPos /\ context.options.hasSize
        /\ context.objectsRelativeToGroup)
       \/ Len(objs) = 0
  THEN NoResult
  ELSE InitialBoxFrom(s, g, context.options, GetObjectsBoundingBox(s, g, objs))

\* Object.assign(this.getObjectsBoundingBox(objects) || {}, context.context)
AssignOverride(bbox, c) ==
  [bbox EXCEPT
     !.ok = TRUE,
     !.hasCenter = c.hasCenter \/ @,
     !.centerX = IF c.hasCenter THEN c.centerX ELSE @,
     !.centerY = IF c.hasCenter THEN c.centerY ELSE @,
     !.hasSize = c.hasSize \/ @,
     !.width = IF c.hasSize THEN c.width ELSE @,
     !.height = IF c.hasSize THEN c.height ELSE @,
     !.correctionX = IF c.hasCorrection THEN c.correctionX ELSE @,
     !.correctionY = IF c.hasCorrection THEN c.correctionY ELSE @]

\* Group#prepareBoundingBox
PrepareBoundingBox(s, g, objs, context) ==
  IF context.type = "initialization"
  THEN PrepareInitialBoundingBox(s, g, objs, context)
  ELSE IF context.type = "imperative" /\ context.context.given
  THEN AssignOverride(GetObjectsBoundingBox(s, g, objs), context.context)
  ELSE GetObjectsBoundingBox(s, g, objs)

\* ------------------------------------------------------- layout strategy
FirstOrChange(context) ==
  context.type = "initialization" \/ context.type = "layout_change"

\* getLayoutStrategyResult, lines 712-726: an absolutely positioned clip
\* region, its center sent to the plane that contains the group
AbsoluteClipResult(clip, center) ==
  [NoResult EXCEPT !.ok = TRUE, !.hasCenter = TRUE, !.hasSize = TRUE,
     !.centerX = center.x, !.centerY = center.y,
     !.width = clip.width, !.height = clip.height]

\* lines 732-743; bbox.correctionX is undefined unless
\* prepareInitialBoundingBox returned a box, and `result.correctionX || 0`
\* then reads the NaN as 0
RelativeClipFirstResult(clip, context, bbox) ==
  [NoResult EXCEPT !.ok = TRUE, !.hasCenter = TRUE, !.hasSize = TRUE,
     !.centerX = bbox.centerX + ClipCenter(clip).x,
     !.centerY = bbox.centerY + ClipCenter(clip).y,
     !.correctionX =
        IF bbox.ok /\ context.type = "initialization"
        THEN bbox.correctionX - ClipCenter(clip).x ELSE 0,
     !.correctionY =
        IF bbox.ok /\ context.type = "initialization"
        THEN bbox.correctionY - ClipCenter(clip).y ELSE 0,
     !.width = clip.width, !.height = clip.height]

\* lines 744-752
RelativeClipResult(clip, center) ==
  [NoResult EXCEPT !.ok = TRUE, !.hasCenter = TRUE, !.hasSize = TRUE,
     !.centerX = center.x + ClipCenter(clip).x,
     !.centerY = center.y + ClipCenter(clip).y,
     !.width = clip.width, !.height = clip.height]

\* the clip-path branch with the absolute clip region followed on every
\* request
ClipPathResultAlways(s, g, objs, context) ==
  IF s.clipPath[g].absolutePositioned
  THEN AbsoluteClipResult(s.clipPath[g],
         IF s.group[g] # None
         THEN PtSub(ClipCenter(s.clipPath[g]), CalcTransformMatrix(s, s.group[g]))
         ELSE ClipCenter(s.clipPath[g]))
  ELSE IF FirstOrChange(context)
       THEN RelativeClipFirstResult(s.clipPath[g], context,
              PrepareBoundingBox(s, g, objs, context))
       ELSE RelativeClipResult(s.clipPath[g], GetRelativeCenterPoint(s, g))

\* getLayoutStrategyResult, lines 709-754: layout 'clip-path' with a clip
\* region
ClipPathResult(s, g, objs, context) ==
  IF s.clipPath[g].absolutePositioned /\ FirstOrChange(context)
  THEN AbsoluteClipResult(s.clipPath[g],
         IF s.group[g] # None
         THEN PtSub(ClipCenter(s.clipPath[g]), CalcTransformMatrix(s, s.group[g]))
         ELSE ClipCenter(s.clipPath[g]))
  ELSE IF ~s.clipPath[g].absolutePositioned
  THEN IF FirstOrChange(context)
       THEN RelativeClipFirstResult(s.clipPath[g], context,
              PrepareBoundingBox(s, g, objs, context))
       ELSE RelativeClipResult(s.clipPath[g], GetRelativeCenterPoint(s, g))
  ELSE NoResult

\* lines 699-700: the `fit-content-lazy` shortcut applies
IsLazyAdd(layoutDirective, objs, context) ==
  layoutDirective = "fit-content-lazy" /\ context.type = "added"
    /\ Len(objs) > Len(context.targets)

\* a 'fixed' group that computes a result for every request
IsAnyTrigger(context) == TRUE

\* lines 705-706: the requests a 'fixed' group computes a result for
IsFixedTrigger(context) ==
  context.type = "initialization" \/ context.type = "imperative"

\* getLayoutStrategyResult without the early return for 'progress'
GetLayoutStrategyResultOnProgress(s, g, layoutDirective, objs, context) ==
  IF IsLazyAdd(layoutDirective, objs, context)
          \/ layoutDirective = "fit-content"
          \/ layoutDirective = "fit-content-lazy"
          \/ (layoutDirective = "fixed" /\ IsFixedTrigger(context))
  THEN PrepareBoundingBox(s, g,
         IF IsLazyAdd(layoutDirective, objs, context)
         THEN context.targets \o <<g>> ELSE objs,
         context)
  ELSE IF layoutDirective = "clip-path" /\ s.clipPath[g].present
  THEN ClipPathResult(s, g, objs, context)
  ELSE NoResult

\* Group#getLayoutStrategyResult (the 'svg' directive of the SVG importer is
\* not one of Layouts)
GetLayoutStrategyResult(s, g, layoutDirective, objs, context) ==
  IF context.type = "progress" THEN NoResult
  ELSE IF IsLazyAdd(layoutDirective, objs, context)
          \/ layoutDirective = "fit-content"
          \/ layoutDirective = "fit-content-lazy"
          \/ (layoutDirective = "fixed" /\ IsFixedTrigger(context))
  THEN PrepareBoundingBox(s, g,
         IF IsLazyAdd(layoutDirective, objs, context)
         THEN context.targets \o <<g>> ELSE objs,
         context)
  ELSE IF layoutDirective = "clip-path" /\ s.clipPath[g].present
  THEN ClipPathResult(s, g, objs, context)
  ELSE NoResult

\* Group#_adjustObjectPosition for an object that is no fabric.Layer
AdjustObjectPosition(s, object, diff) ==
  [s EXCEPT !.left[object] = @ + diff.x, !.top[object] = @ + diff.y]

\* object.group: the selection while the object is in it, else the owning
\* group
TheSelection == "selection"
EffectiveGroup(s, object) ==
  IF object \in Range(s.selected) THEN TheSelection ELSE s.group[object]

\* what a layout pass of g does is noted in steps: the step, the object it
\* is done to, the displacement, and the angle of g at that moment
Step(s, g, step, object, diff) ==
  [s EXCEPT !.steps = Append(@, [g |-> g, step |-> step, object |-> object,
                                 diff |-> diff, angle |-> s.props[g].angle])]

\* _applyLayoutStrategy, lines 618-620: the directly owned children are
\* shifted
RECURSIVE AdjustObjects(_, _, _, _)
AdjustObjects(s, g, diff, i) ==
  IF i > Len(s.objects[g]) THEN s
  ELSE AdjustObjects(
         IF EffectiveGroup(s, s.objects[g][i]) = g
         THEN AdjustObjectPosition(Step(s, g, "child", s.objects[g][i], diff),
                                   s.objects[g][i], diff)
         ELSE s,
         g, diff, i + 1)

\* what a layout pass may change: positions and sizes of all objects and
\* clip regions
Geometry(s) == <<s.left, s.top, s.width, s.height, s.clipPath, s.nan>>

\* a layout request that other code issues on the same group from inside a
\* running pass (a listener or an override reached through this.set,
\* setPositionByOrigin or object.set): its type and the point it arrives at
NoScript == [type |-> None, at |-> None]
ScriptPoints == {"size", "position", "children"}

RECURSIVE ApplyLayoutStrategy(_, _, _, _)

\* the request of the script, when it arrives at this point; a script of
\* type 'throw' is code that raises an error there instead
Reenter(s, g, script, at) ==
  IF script.type = "throw" /\ script.at = at
  THEN [s EXCEPT !.err = "thrown"]
  ELSE IF script.type # None /\ script.at = at
  THEN ApplyLayoutStrategy(s, g, Context(script.type), NoScript)
  ELSE s

\* _applyLayoutStrategy, line 607
SetDimensions(s, g, result) ==
  [Step(s, g, "size", g, Pt(0, 0))
     EXCEPT !.width[g] = result.width, !.height[g] = result.height,
            !.nan[g] = @ \/ ~result.hasSize]

\* lines 608-616
SetPosition(s, g, center, result, initialTransform) ==
  IF ~result.hasCenter THEN [s EXCEPT !.nan[g] = TRUE]
  ELSE IF s.nan[g] \/ Pt(result.centerX, result.centerY) # center
            \/ initialTransform
  THEN [SetPositionByOrigin(Step(s, g, "position", g, Pt(0, 0)), g,
                            Pt(result.centerX, result.centerY))
          EXCEPT !.nan[g] = ~result.hasSize]
  ELSE s

\* lines 591-596, 611 and 634: `initialTransform && this.set(initialTransform)`
SetInitialTransform(s, g, context) ==
  IF context.type = "initialization" /\ context.options.given
  THEN [Step(s, g, "transform", g, Pt(0, 0))
          EXCEPT !.props[g].angle = context.options.angle]
  ELSE s

\* lines 622-623
AdjustClipPath(s, g, context, diff) ==
  IF context.type # "initialization" /\ s.layout[g] # "clip-path"
       /\ s.clipPath[g].present /\ ~s.clipPath[g].absolutePositioned
  THEN [s EXCEPT !.clipPath[g].left = @ + diff.x,
                 !.clipPath[g].top = @ + diff.y]
  ELSE s

\* lines 600-624: the result is applied; an error raised on the way ends the
\* pass where it is raised
ApplyResult(s, g, context, script, center, result, diff) ==
  LET sized == Reenter(SetDimensions([s EXCEPT !.layoutInProgress[g] = TRUE],
                                     g, result),
                       g, script, "size")
      placed == IF sized.err # s.err THEN sized
                ELSE Reenter(
                       SetInitialTransform(
                         SetPosition(sized, g, center, result,
                           context.type = "initialization"
                             /\ context.options.given),
                         g, context),
                       g, script, "position")
      shifted == IF placed.err # s.err THEN placed
                 ELSE Reenter(
                        IF ~context.objectsRelativeToGroup
                        THEN AdjustObjects(placed, g, diff, 1) ELSE placed,
                        g, script, "children")
  IN IF shifted.err # s.err THEN shifted
     ELSE [AdjustClipPath(shifted, g, context, diff)
             EXCEPT !.layoutInProgress[g] = FALSE]

\* _bubbleLayout that passes nothing on
BubbleLayoutOff(s, g, context) == s

\* Group#_bubbleLayout
BubbleLayout(s, g, context) ==
  IF s.group[g] # None /\ s.group[g] \in Groups
  THEN ApplyLayoutStrategy(s, s.group[g],
         [context EXCEPT !.path = Append(@, g)], NoScript)
  ELSE s

\* _applyLayoutStrategy, lines 640-649: flag, hook, event, bubbling
FinishLayout(s, g, context) ==
  BubbleLayout(
    [s EXCEPT !.firstLayoutDone[g] = TRUE,
              !.hooks = Append(@, <<g, context.type>>)],
    g, context)

\* lines 601-602: from the new center to the old one, plus the correction
Vector(center, result) ==
  Pt(center.x - result.centerX + result.correctionX,
     center.y - result.centerY + result.correctionY)

\* line 603: vector sent through the inverse of the group's own matrix as it
\* is then, without the translation
DiffPlain(s, g, center, result) == Vector(center, result)
Diff(s, g, center, result) ==
  InvRotate(s.props[g].angle, Vector(center, result))

\* lines 597-639, a request that is neither rejected nor dropped
LayoutPass(s, g, context, script, center, result) ==
  IF result.ok
  THEN LET applied ==
             ApplyResult(
               Step(s, g, "vector", g, Vector(center, result)),
               g, context, script, center, result, Diff(s, g, center, result))
       IN IF applied.err # s.err THEN applied
          ELSE FinishLayout(applied, g, context)
  ELSE IF context.type = "initialization"
  THEN FinishLayout(SetInitialTransform(s, g, context), g, context)
  ELSE s

\* the size and position of g, and the positions of the objects of its child
\* list
OwnGeometry(s, g) ==
  <<s.left[g], s.top[g], s.width[g], s.height[g], s.nan[g],
    [i \in 1..Len(s.objects[g]) |->
       <<s.left[s.objects[g][i]], s.top[s.objects[g][i]]>>]>>

\* what a call of _applyLayoutStrategy was asked and what it did: s the
\* state before, r the state after
TraceEntry(s, r, g, context) ==
  [g |-> g, type |-> context.type, path |-> context.path,
   targets |-> context.targets,
   owners |-> [i \in 1..Len(context.targets) |-> s.group[context.targets[i]]],
   members |-> s.objects[g],
   layout |-> s.layout[g],
   dirty |-> s.dirty[g],
   firstLayoutDone |-> s.firstLayoutDone[g],
   layoutInProgress |-> s.layoutInProgress[g],
   geometryChanged |-> Geometry(r) # Geometry(s),
   ownGeometryChanged |-> OwnGeometry(r, g) # OwnGeometry(s, g),
   hooked |-> Len(r.hooks) > Len(s.hooks),
   bubbled |-> \E i \in 1..Len(r.trace) :
                  i > Len(s.trace) /\ r.trace[i].path = Append(context.path, g)]

Traced(s, r, g, context) ==
  [r EXCEPT !.trace = Append(@, TraceEntry(s, r, g, context))]

\* _applyLayoutStrategy without the rejection of requests that come before
\* the initialization layout
ApplyLayoutStrategyUnguarded(s, g, context, script) ==
  Traced(s,
    IF context.type = "progress" /\ s.layoutInProgress[g] THEN s
    ELSE LayoutPass(s, g, context, script, GetRelativeCenterPoint(s, g),
           GetLayoutStrategyResult(s, g, s.layout[g], s.objects[g], context)),
    g, context)

\* Group#_applyLayoutStrategy
ApplyLayoutStrategy(s, g, context, script) ==
  Traced(s,
    IF context.type # "initialization" /\ ~s.firstLayoutDone[g] THEN s
    ELSE IF context.type = "progress" /\ s.layoutInProgress[g] THEN s
    ELSE LayoutPass(s, g, context, script, GetRelativeCenterPoint(s, g),
           GetLayoutStrategyResult(s, g, s.layout[g], s.objects[g], context)),
    g, context)

\* -------------------------------------------------------------- rendering
\* the filter of a rendering context: none, `false`, or a function, given by
\* the objects it returns true for
NoFilter == [kind |-> "none", pass |-> {}]
Filters ==
  {NoFilter, [kind |-> "false", pass |-> {}]}
    \cup {[kind |-> "function", pass |-> S] : S \in SUBSET Leaves}

\* drawObject, line 484
ForceRendering(filter, object) ==
  \/ filter.kind = "false"
  \/ filter.kind = "function" /\ object \in filter.pass

\* drawObject, line 480
PreservesObjectStacking(s, g) ==
  s.canvas[g] # None /\ s.preserveObjectStacking

\* drawObject, lines 482-495: the objects rendered, in order, each with the
\* mark of the branch that renders it under the inverse of the transform of
\* the group
RECURSIVE DrawObject(_, _, _, _)
DrawObject(s, g, filter, i) ==
  IF i > Len(s.objects[g]) THEN <<>>
  ELSE (IF (ForceRendering(filter, s.objects[g][i])
              \/ PreservesObjectStacking(s, g))
             /\ EffectiveGroup(s, s.objects[g][i]) # g
        THEN <<[object |-> s.objects[g][i], inverse |-> TRUE]>>
        ELSE IF (filter.kind # "function"
                   \/ ForceRendering(filter, s.objects[g][i]))
                  /\ EffectiveGroup(s, s.objects[g][i]) = g
        THEN <<[object |-> s.objects[g][i], inverse |-> FALSE]>>
        ELSE <<>>)
       \o DrawObject(s, g, filter, i + 1)

\* ----------------------------------------------------------------- events
\* the names of the modification events
ModificationEvents == {"moving", "scaling"}

\* the options of fireEvent: the target of the transform, and a key
\* `target` of their own or none
EventOptions(S) ==
  [transform : [target : S], hasTarget : BOOLEAN, target : S]

\* Observable#fire(eventName, options) on a canvas or on an object: the
\* entry of the log of fired events
Fire(on, eventName, options) ==
  <<[on |-> on, name |-> eventName, options |-> options]>>

\* fireEvent with the two events in the other order
FireEventTargetFirst(s, eventName, options) ==
  Fire(options.transform.target, eventName, options)
    \o (IF s.canvas[options.transform.target] # None
        THEN Fire(s.canvas[options.transform.target], "object:" \o eventName,
                  [options EXCEPT !.hasTarget = TRUE,
                                  !.target = options.transform.target])
        ELSE <<>>)

\* fireEvent, src/util/fireEvent.ts lines 4-16: the events fired, in order
FireEvent(s, eventName, options) ==
  (IF s.canvas[options.transform.target] # None
   THEN Fire(s.canvas[options.transform.target], "object:" \o eventName,
             [options EXCEPT !.hasTarget = TRUE,
                             !.target = options.transform.target])
   ELSE <<>>)
    \o Fire(options.transform.target, eventName, options)

\* ------------------------------------------------------ dirty fast path
\* Group#_set('dirty', true)
SetDirty(s, g) == [s EXCEPT !.dirty[g] = TRUE]

\* invalidate that marks the group dirty whatever its cache and canvas
InvalidateAlways(s, g) ==
  ApplyLayoutStrategy(SetDirty(s, g), g, Context("progress"), NoScript)

\* Group#invalidate
Invalidate(s, g) ==
  ApplyLayoutStrategy(
    IF IsOnACache(s, g) /\ (s.canvas[g] = None \/ s.preserveObjectStacking)
    THEN SetDirty(s, g) ELSE s,
    g, Context("progress"), NoScript)

\* Group#_onAfterObjectsChange
OnAfterObjectsChange(s, g, type, targets, script) ==
  SetDirty(
    ApplyLayoutStrategy(s, g, [Context(type) EXCEPT !.targets = targets], script),
    g)

\* Group#_set('canvas', value), lines 120-126: a changed canvas is handed
\* down to every object of the child list
RECURSIVE SetCanvas(_, _, _)
RECURSIVE SetCanvasLoop(_, _, _, _)
SetCanvas(s, x, value) ==
  IF x \in Groups /\ s.canvas[x] # value
  THEN SetCanvasLoop([s EXCEPT !.canvas[x] = value], s.objects[x], value, 1)
  ELSE [s EXCEPT !.canvas[x] = value]

\* the forEachObject loop of _set, lines 122-124
SetCanvasLoop(s, objs, value, i) ==
  IF i > Len(objs) THEN s
  ELSE SetCanvasLoop(SetCanvas(s, objs[i], value), objs, value, i + 1)

\* ------------------------------------------------------------- monitoring
\* object.off(event, handler) takes one registration of the handler off,
\* object.on(event, handler) puts one more on
Off(n) == IF n > 0 THEN n - 1 ELSE 0
On(n) == n + 1

\* the group's listeners are on the object
Watches(s, g, object) == s.watching[g][object] > 0

\* Group#_watchObject: the group's listeners are put on the object's
\* 'changed', 'modified', 'selected' and 'deselected' events, or taken off;
\* line 220 takes them off before they are put on
WatchObject(s, g, watch, object) ==
  [s EXCEPT !.watching[g][object] = IF watch THEN On(Off(@)) ELSE Off(@)]

\* the forEachObject loop of _set, line 131
RECURSIVE WatchLoop(_, _, _, _)
WatchLoop(s, g, watch, i) ==
  IF i > Len(s.objects[g]) THEN s
  ELSE WatchLoop(WatchObject(s, g, watch, s.objects[g][i]), g, watch, i + 1)

\* Group#_set('interactive', value), lines 120-132
SetInteractive(s, g, value) ==
  WatchLoop([s EXCEPT !.interactive[g] = value], g, value, 1)

\* Group#__objectMonitor
ObjectMonitor(s, g, script) ==
  SetDirty(ApplyLayoutStrategy(s, g, Context("object_modified"), script), g)

\* Group#__objectSelectionMonitor
ObjectSelectionMonitor(s, g, isSelected, object) ==
  IF isSelected
  THEN SetDirty([s EXCEPT !.activeObjects[g] = Append(@, object)], g)
  ELSE IF Len(s.activeObjects[g]) > 0 /\ IndexOf(s.activeObjects[g], object) > 0
  THEN SetDirty([s EXCEPT !.activeObjects[g] = RemoveAt(@, IndexOf(@, object))],
                g)
  ELSE s

\* the groups in the order their listeners are called
GroupOrder == <<"g1", "g2", "g3">>

\* object.fire('modified'): the monitor of every group that listens runs
RECURSIVE FireModified(_, _, _)
FireModified(s, object, i) ==
  IF i > Len(GroupOrder) THEN s
  ELSE FireModified(
         IF Watches(s, GroupOrder[i], object)
         THEN ObjectMonitor(s, GroupOrder[i], NoScript) ELSE s,
         object, i + 1)

\* object.fire('selected') and object.fire('deselected')
RECURSIVE FireSelection(_, _, _, _)
FireSelection(s, object, isSelected, i) ==
  IF i > Len(GroupOrder) THEN s
  ELSE FireSelection(
         IF Watches(s, GroupOrder[i], object)
         THEN ObjectSelectionMonitor(s, GroupOrder[i], isSelected, object) ELSE s,
         object, isSelected, i + 1)

\* Group#dispose, lines 980-987: the active set is emptied, the listeners
\* are taken off every child and every child that is a group is disposed of;
\* fabric.Object#dispose touches no field of the model
RECURSIVE GroupDispose(_, _), DisposeLoop(_, _, _)
DisposeLoop(s, g, i) ==
  IF i > Len(s.objects[g]) THEN s
  ELSE DisposeLoop(
         IF s.objects[g][i] \in Groups
         THEN GroupDispose(WatchObject(s, g, FALSE, s.objects[g][i]),
                           s.objects[g][i])
         ELSE WatchObject(s, g, FALSE, s.objects[g][i]),
         g, i + 1)

\* dispose that leaves the listeners on the children
GroupDisposeListening(s, g) ==
  [s EXCEPT !.activeObjects[g] = <<>>, !.disposed[g] = TRUE]

GroupDispose(s, g) ==
  [DisposeLoop([s EXCEPT !.activeObjects[g] = <<>>], g, 1)
     EXCEPT !.disposed[g] = TRUE]

\* ------------------------------------------------------------ exit protocol
\* _exitGroup, lines 372-375
RemoveActive(s, g, object) ==
  IF Len(s.activeObjects[g]) > 0 /\ IndexOf(s.activeObjects[g], object) > 0
  THEN [s EXCEPT !.activeObjects[g] = RemoveAt(@, IndexOf(@, object))]
  ELSE s

\* _exitGroup applying the group's own matrix in place of its transform
LeavePlaneOwn(s, g, object, removeParentTransform) ==
  IF ~removeParentTransform
  THEN ApplyTransformToObject(s, object,
         PtAdd(CalcOwnMatrix(s, g), CalcTransformMatrix(s, object)))
  ELSE s

\* _exitGroup, lines 361-370, once object.group is cleared
LeavePlane(s, g, object, removeParentTransform) ==
  IF ~removeParentTransform
  THEN ApplyTransformToObject(s, object,
         PtAdd(CalcTransformMatrix(s, g), CalcTransformMatrix(s, object)))
  ELSE s

\* Group#_exitGroup
ExitGroupInner(s, g, object, removeParentTransform) ==
  RemoveActive(
    WatchObject(
      LeavePlane([s EXCEPT !.group[object] = None], g, object,
                 removeParentTransform),
      g, FALSE, object),
    g, object)

\* Group#exitGroup
ExitGroup(s, g, object, removeParentTransform) ==
  SetCanvas(ExitGroupInner(s, g, object, removeParentTransform), object, None)

\* Group#_onObjectRemoved
OnObjectRemoved(s, g, object) == ExitGroup(s, g, object, FALSE)

\* fabric.Collection.remove(objects, callback): every object found in the
\* list is spliced out, collected and handed to the callback
RECURSIVE CollectionRemove(_, _, _, _)
CollectionRemove(s, g, objs, i) ==
  IF i > Len(objs) THEN s
  ELSE CollectionRemove(
         IF IndexOf(s.objects[g], objs[i]) > 0
         THEN OnObjectRemoved(
                [s EXCEPT !.objects[g] = RemoveAt(@, IndexOf(@, objs[i])),
                          !.ret = Append(@, objs[i])],
                g, objs[i])
         ELSE s,
         g, objs, i + 1)

\* Group#remove, once the objects are out: ret holds the removed ones
AfterRemove(s, g, script) ==
  OnAfterObjectsChange(s, g, "removed", s.ret, script)

\* Group#remove
Remove(s, g, objs, script) ==
  AfterRemove(CollectionRemove([s EXCEPT !.ret = <<>>], g, objs, 1), g, script)

\* Group#removeAll
RemoveAll(s, g, script) ==
  Remove([s EXCEPT !.activeObjects[g] = <<>>], g, s.objects[g], script)

\* ----------------------------------------------------------- enter protocol
\* Group#canEnterGroup: "ok", or the error it throws
CanEnterGroup(s, g, object) ==
  IF object = g \/ IsDescendantOf(s, g, object) THEN "self"
  ELSE IF s.group[object] # None /\ s.group[object] = g THEN "duplicate"
  ELSE "ok"

\* _enterGroup, line 341
WatchIfInteractive(s, g, object) ==
  IF s.interactive[g] THEN WatchObject(s, g, TRUE, object) ELSE s

\* Group#_enterGroup
EnterGroupInner(s, g, object, removeParentTransform) ==
  WatchIfInteractive(
    SetCanvas(
      [(IF removeParentTransform
        THEN ApplyTransformToObject(s, object,
               PtSub(CalcTransformMatrix(s, object), CalcTransformMatrix(s, g)))
        ELSE s)
       EXCEPT !.group[object] = g],
      object, s.canvas[g]),
    g, object)

\* enterGroup, lines 314-318: the canvas' active object, or a descendant of
\* it, is entering
TrackActive(s, g, object) ==
  IF s.canvas[g] # None /\ s.activeObject # None
       /\ (s.activeObject = object \/ IsDescendantOf(s, object, s.activeObject))
  THEN [s EXCEPT !.activeObjects[g] = Append(@, object)]
  ELSE s

\* Group#enterGroup (the second definition, lines 306-320, is the one the
\* class keeps); err is set when canEnterGroup throws
EnterGroup(s, g, object, removeParentTransform) ==
  IF CanEnterGroup(s, g, object) # "ok"
  THEN [s EXCEPT !.err = CanEnterGroup(s, g, object)]
  ELSE TrackActive(
         EnterGroupInner(
           IF s.group[object] # None
           THEN Remove(s, s.group[object], <<object>>, NoScript)
           ELSE s,
           g, object, removeParentTransform),
         g, object)

\* Group#_onObjectAdded
OnObjectAdded(s, g, object) == EnterGroup(s, g, object, TRUE)

\* the callback loop of fabric.Collection.add / insertAt: it ends at the
\* first callback that throws
RECURSIVE CollectionCallbacks(_, _, _, _)
CollectionCallbacks(s, g, objs, i) ==
  IF i > Len(objs) \/ s.err # "none" THEN s
  ELSE CollectionCallbacks(OnObjectAdded(s, g, objs[i]), g, objs, i + 1)

\* fabric.Collection.add(objects, callback): the objects are appended to the
\* list, then the callback runs for each of them
CollectionAdd(s, g, objs) ==
  CollectionCallbacks([s EXCEPT !.objects[g] = @ \o objs], g, objs, 1)

\* fabric.Collection.insertAt(objects, index, callback)
CollectionInsertAt(s, g, objs, index) ==
  CollectionCallbacks([s EXCEPT !.objects[g] = InsertSeq(@, index, objs)],
                      g, objs, 1)

\* add / insertAt once fabric.Collection has returned or thrown: a throw
\* leaves the call before _onAfterObjectsChange
AfterAdd(s, g, objs, script) ==
  IF s.err # "none" THEN s
  ELSE OnAfterObjectsChange(s, g, "added", objs, script)

\* Group#add
Add(s, g, objs, script) == AfterAdd(CollectionAdd(s, g, objs), g, objs, script)

\* Group#insertAt
InsertAt(s, g, objs, index, script) ==
  AfterAdd(CollectionInsertAt(s, g, objs, index), g, objs, script)

\* ------------------------------------------------------------ Group#_set
\* _set('layout', value) that makes no layout request
SetLayoutQuiet(s, g, value, script) == [s EXCEPT !.layout[g] = value]

\* Group#_set('layout', value), lines 120-129
SetLayout(s, g, value, script) ==
  IF s.layout[g] # value
  THEN ApplyLayoutStrategy([s EXCEPT !.layout[g] = value], g,
         [Context("layout_change") EXCEPT !.prevLayout = s.layout[g]], script)
  ELSE s

\* Group#triggerLayout
TriggerLayout(s, g, override, script) ==
  ApplyLayoutStrategy(
    IF override.given /\ override.layout # None
    THEN [s EXCEPT !.layout[g] = override.layout] ELSE s,
    g, [Context("imperative") EXCEPT !.context = override], script)

\* ------------------------------------------------- selection and set
\* the keys the tests set: 'fill' is one of cacheProperties, 'angle' one of
\* stateProperties, 'foo' neither
PropertyKeys == {"fill", "angle", "foo"}
IsCacheProperty(key) == key = "fill"
IsStateProperty(key) == key = "angle"

\* the notification goes to the group the object's `group` field names: for
\* a member of the selection, the selection
NotifyActiveGroup(s, object, key) ==
  IF IsCacheProperty(key) \/ IsStateProperty(key)
  THEN [s EXCEPT !.selection.dirty = TRUE]
  ELSE s

\* an object's property has changed: its owning group (object.__owningGroup
\* while the object is in the selection; kept in `group`) is invalidated
NotifyOwner(s, object, key) ==
  IF (IsCacheProperty(key) \/ IsStateProperty(key)) /\ s.group[object] \in Groups
  THEN Invalidate(s, s.group[object])
  ELSE s

\* object.set(key, value) on an object of the selection
ObjectSet(s, object, key, value) ==
  IF s.props[object][key] = value THEN s
  ELSE NotifyOwner(
         [s EXCEPT !.props[object][key] = value,
                   !.dirty[object] = IF IsCacheProperty(key) THEN TRUE ELSE @],
         object, key)

RECURSIVE NotifyOwners(_, _, _)
NotifyOwners(s, key, i) ==
  IF i > Len(s.selected) THEN s
  ELSE NotifyOwners(NotifyOwner(s, s.selected[i], key), key, i + 1)

\* activeSelection.set(key, value)
SelectionSet(s, key, value) ==
  IF s.selection[key] = value THEN s
  ELSE NotifyOwners([s EXCEPT !.selection[key] = value], key, 1)

\* a selection built as a fabric.Group is: every object first leaves the
\* group it is in (enterGroup, lines 310-312)
RECURSIVE SelectEntering(_, _)
SelectEntering(s, objs) ==
  IF Len(objs) = 0 THEN [s EXCEPT !.selection.dirty = TRUE]
  ELSE [SelectEntering(
          IF s.group[objs[1]] # None
          THEN Remove(s, s.group[objs[1]], <<objs[1]>>, NoScript) ELSE s,
          Tail(objs))
        EXCEPT !.selected = <<objs[1]>> \o @]

\* new fabric.ActiveSelection(objects): the objects stay in the child lists
\* of their owning groups, which their __owningGroup fields name; the
\* selection is born dirty, as every object is
Select(s, objs) == [s EXCEPT !.selected = objs, !.selection.dirty = TRUE]

\* the selection is disposed of: its objects are in no selection any more
Dispose(s) == [s EXCEPT !.selected = <<>>]

\* ---------------------------------------------------------- constructor
\* initialize, lines 95-100
NewGroup(s, g, objs) ==
  [s EXCEPT !.objects[g] = objs, !.activeObjects[g] = <<>>,
            !.firstLayoutDone[g] = FALSE, !.built[g] = TRUE]

\* initialize, line 102: the options are set one by one through _set, with
\* angle 0 in place of the angle of the options
SetOptions(s, g, options) ==
  IF ~options.given THEN s
  ELSE SetInteractive(
         SetLayout(
           SetCanvas(
             [s EXCEPT
                !.width[g] = IF options.hasSize THEN options.width ELSE @,
                !.height[g] = IF options.hasSize THEN options.height ELSE @,
                !.left[g] = IF options.hasPos THEN options.left ELSE @,
                !.top[g] = IF options.hasPos THEN options.top ELSE @,
                !.clipPath[g] = options.clipPath,
                !.group[g] = options.group,
                !.props[g].angle = 0],
             g, options.canvas),
           g, options.layout, NoScript),
         g, options.interactive)

\* the forEachObject loop of initialize, lines 103-106: it ends when
\* enterGroup throws
RECURSIVE InitializeLoop(_, _, _, _)
InitializeLoop(s, g, objs, i) ==
  IF i > Len(objs) \/ s.err # "none" THEN s
  ELSE InitializeLoop(EnterGroup(s, g, objs[i], FALSE), g, objs, i + 1)

\* a layout request that a listener of 'added:initialized' (fired by the
\* loop of initialize, line 105) issues before the initialization layout:
\* the group it is issued on (the new group or one of its objects) and its
\* type
NoPre == [on |-> None, type |-> None]

\* initialize, lines 107-111, reached when no enterGroup has thrown
InitialLayout(s, g, options, objectsRelativeToGroup, pre) ==
  IF s.err # "none" THEN s
  ELSE ApplyLayoutStrategy(
         IF pre.on # None
         THEN ApplyLayoutStrategy(s, pre.on, Context(pre.type), NoScript)
         ELSE s,
         g,
         [Context("initialization") EXCEPT
            !.options = options,
            !.objectsRelativeToGroup = objectsRelativeToGroup],
         NoScript)

\* Group#initialize(objects, options, objectsRelativeToGroup)
Initialize(s, g, objs, options, objectsRelativeToGroup, pre) ==
  InitialLayout(
    InitializeLoop(SetOptions(NewGroup(s, g, objs), g, options), g, objs, 1),
    g, options, objectsRelativeToGroup, pre)

\* ---------------------------------------------------------- serialization
\* Group#toObject, lines 970-974: the record of fabric.Object#toObject
\* (geometry and clip region) with layout and interactive, and the records of
\* the children in the order of the child list; hasPos and hasSize: the
\* record has the keys left and top, width and height
RECURSIVE ToObject(_, _)
ToObject(s, x) ==
  [hasPos |-> TRUE, left |-> s.left[x], top |-> s.top[x],
   hasSize |-> TRUE, width |-> s.width[x], height |-> s.height[x],
   layout |-> IF x \in Groups THEN s.layout[x] ELSE None,
   interactive |-> IF x \in Groups THEN s.interactive[x] ELSE FALSE,
   clipPath |-> IF x \in Groups THEN s.clipPath[x] ELSE NoClip,
   objects |-> IF x \in Groups
               THEN [i \in 1..Len(s.objects[x]) |-> ToObject(s, s.objects[x][i])]
               ELSE <<>>]

\* the options fabric.Group.fromObject hands to the constructor, lines
\* 1109-1111: the record without its objects
RecordOptions(record) ==
  [NoOptions EXCEPT
     !.given = TRUE,
     !.hasPos = record.hasPos, !.left = record.left, !.top = record.top,
     !.hasSize = record.hasSize, !.width = record.width,
     !.height = record.height,
     !.layout = record.layout, !.interactive = record.interactive,
     !.clipPath = record.clipPath]

\* the instance a record is turned into, before its constructor runs: it
\* takes the place of x in the model, with the fields of a new object; an
\* object that is no group takes its geometry from the record
Enlivened(s, x, record) ==
  IF x \in Groups
  THEN [s EXCEPT !.group[x] = None, !.canvas[x] = None, !.objects[x] = <<>>,
                 !.layout[x] = "fit-content", !.interactive[x] = FALSE,
                 !.watching[x] = [o \in Ids |-> 0], !.clipPath[x] = NoClip,
                 !.left[x] = 0, !.top[x] = 0, !.width[x] = 0, !.height[x] = 0,
                 !.dirty[x] = TRUE, !.disposed[x] = FALSE, !.built[x] = FALSE,
                 !.layoutInProgress[x] = FALSE]
  ELSE [s EXCEPT !.group[x] = None, !.canvas[x] = None,
                 !.left[x] = record.left, !.top[x] = record.top,
                 !.width[x] = record.width, !.height[x] = record.height]

\* fabric.Group.fromObject(record), lines 1108-1118, for the record of x:
\* the objects are enlivened first (ids: the instances they take the place
\* of), then the group is constructed from them with the record's options
\* and objectsRelativeToGroup = true
RECURSIVE FromObject(_, _, _), EnlivenObjects(_, _, _, _)
EnlivenObjects(s, ids, records, i) ==
  IF i > Len(records) THEN s
  ELSE EnlivenObjects(FromObject(s, ids[i], records[i]), ids, records, i + 1)

FromObject(s, x, record) ==
  IF x \in Groups
  THEN Initialize(
         Enlivened(EnlivenObjects(s, s.objects[x], record.objects, 1), x,
                   record),
         x, s.objects[x], RecordOptions(record), TRUE, NoPre)
  ELSE Enlivened(s, x, record)

\* ----------------------------------------------------------- the registry
\* the keys handlers are registered under, and the handlers
TypeKeys == {"rect", "gradient"}
Handlers == {"h1", "h2"}

\* the records looked up: type is a key or None (no type), colorStops says
\* whether the record has a list of color stops
JSONRecords == [type : TypeKeys \cup {None}, colorStops : BOOLEAN]

\* the value of a key that nothing is registered under
NoValue == [present |-> FALSE, json |-> None, svg |-> None]

\* Registry#register keeping the value a key already has
RegisterOnce(s, type, value) ==
  IF ~s.registry[type].present THEN [s EXCEPT !.registry[type] = value] ELSE s

\* Registry#register(type, value)
Register(s, type, value) == [s EXCEPT !.registry[type] = value]

\* Registry#registerClass(key, klass)
RegisterClass(s, key, klass) ==
  Register(s, key, [present |-> TRUE, json |-> klass.fromObject,
                    svg |-> klass.fromElement])

\* Registry#resolveJSONKey taking the type of every record
ResolveJSONKeyByType(data) == data.type

\* Registry#resolveJSONKey(data)
ResolveJSONKey(data) ==
  IF data.colorStops THEN "gradient" ELSE data.type

\* `!!key && this.registry.get(key)?.json`: the handler, or None
HandlerOf(s, key) ==
  IF key # None /\ s.registry[key].present THEN s.registry[key].json
  ELSE None

\* Registry#getJSONHandler(data, strict): ret is the handler returned, err
\* the error thrown
GetJSONHandler(s, data, strict) ==
  IF HandlerOf(s, ResolveJSONKey(data)) = None /\ strict
  THEN [s EXCEPT !.err = "error"]
  ELSE [s EXCEPT !.ret = <<HandlerOf(s, ResolveJSONKey(data))>>]

\* ------------------------------------------------------------ the inputs
\* the non-empty lists of at most MaxArgs objects of S
RECURSIVE ListsUpTo(_, _)
ListsUpTo(S, n) ==
  IF n = 0 THEN {}
  ELSE ListsUpTo(S, n - 1) \cup [1..n -> S]

\* of the objects of S, those that exist: leaves, and groups constructed
Existing(S) == {x \in S : x \in Leaves \/ built[x]}

ArgLists(S) == ListsUpTo(Existing(S), MaxArgs)

Scripts == [type : LayoutTypes \ {"initialization"}, at : ScriptPoints]
ThrowScripts == [type : {"throw"}, at : ScriptPoints]

AbsoluteClip ==
  [present |-> TRUE, absolutePositioned |-> TRUE,
   left |-> 0, top |-> 0, width |-> 4, height |-> 4]
RelativeClip ==
  [present |-> TRUE, absolutePositioned |-> FALSE,
   left |-> -2, top |-> -2, width |-> 4, height |-> 4]

DefaultOptions == [NoOptions EXCEPT !.given = TRUE]

\* the options a group is constructed with
ConstructOptions ==
  {NoOptions,
   DefaultOptions,
   [DefaultOptions EXCEPT !.layout = "fit-content-lazy"],
   [DefaultOptions EXCEPT !.hasSize = TRUE, !.width = 12, !.height = 12],
   [DefaultOptions EXCEPT !.layout = "fixed", !.hasPos = TRUE, !.left = 2,
                          !.top = 2, !.hasSize = TRUE, !.width = 8,
                          !.height = 8],
   [DefaultOptions EXCEPT !.clipPath = RelativeClip],
   [DefaultOptions EXCEPT !.layout = "clip-path", !.clipPath = AbsoluteClip],
   [DefaultOptions EXCEPT !.layout = "clip-path", !.clipPath = RelativeClip]}

\* the requests issued before the initialization layout
PreRequests ==
  {NoPre} \cup [on : Groups, type : LayoutTypes \ {"initialization"}]

Overrides ==
  {NoOverride,
   [NoOverride EXCEPT !.given = TRUE, !.hasCenter = TRUE, !.centerX = 2,
                      !.centerY = 2, !.hasSize = TRUE, !.width = 4,
                      !.height = 4]}

\* --------------------------------------------------------------- the state
\* before the first operation
NoOp ==
  [op |-> "none", g |-> None, objs |-> <<>>, arg |-> <<>>, err |-> "none",
   trace |-> <<>>, hooks |-> <<>>, steps |-> <<>>, ret |-> <<>>]

Init ==
  /\ objects = [g \in Groups |-> <<>>]
  /\ group = [x \in Ids |-> None]
  /\ canvas = [x \in Ids |-> None]
  /\ activeObjects = [g \in Groups |-> <<>>]
  /\ firstLayoutDone = [g \in Groups |-> FALSE]
  /\ layoutInProgress = [g \in Groups |-> FALSE]
  /\ dirty = [x \in Ids |-> TRUE]
  /\ layout = [g \in Groups |-> "fit-content"]
  /\ left = [x \in Ids |-> IF x = "o1" THEN 0 ELSE IF x = "o2" THEN -8 ELSE 0]
  /\ top = [x \in Ids |-> IF x = "o1" THEN 0 ELSE IF x = "o2" THEN 4 ELSE 0]
  /\ width = [x \in Ids |-> IF x \in Leaves THEN 4 ELSE 0]
  /\ height = [x \in Ids |-> IF x = "o1" THEN 4 ELSE IF x = "o2" THEN 8 ELSE 0]
  /\ clipPath = [g \in Groups |-> NoClip]
  /\ ownCaching = [g \in Groups |-> FALSE]
  /\ built = [g \in Groups |-> FALSE]
  /\ preserveObjectStacking = FALSE
  /\ activeObject = None
  /\ selected = <<>>
  /\ props = [x \in Ids |-> [fill |-> 0, angle |-> 0, foo |-> 0]]
  /\ selection = [fill |-> 0, angle |-> 0, foo |-> 0, dirty |-> FALSE]
  /\ interactive = [g \in Groups |-> FALSE]
  /\ watching = [g \in Groups |-> [o \in Ids |-> 0]]
  /\ disposed = [g \in Groups |-> FALSE]
  /\ nan = [g \in Groups |-> FALSE]
  /\ registry = [key \in TypeKeys |-> NoValue]
  /\ ops = 0
  /\ lastOp = NoOp

\* the state r becomes the next state
Become(r, last) ==
  /\ objects' = r.objects
  /\ group' = r.group
  /\ canvas' = r.canvas
  /\ activeObjects' = r.activeObjects
  /\ firstLayoutDone' = r.firstLayoutDone
  /\ layoutInProgress' = r.layoutInProgress
  /\ dirty' = r.dirty
  /\ layout' = r.layout
  /\ left' = r.left
  /\ top' = r.top
  /\ width' = r.width
  /\ height' = r.height
  /\ clipPath' = r.clipPath
  /\ ownCaching' = r.ownCaching
  /\ built' = r.built
  /\ preserveObjectStacking' = r.preserveObjectStacking
  /\ activeObject' = r.activeObject
  /\ selected' = r.selected
  /\ props' = r.props
  /\ selection' = r.selection
  /\ interactive' = r.interactive
  /\ watching' = r.watching
  /\ disposed' = r.disposed
  /\ nan' = r.nan
  /\ registry' = r.registry
  /\ lastOp' = last

\* the state an operation ends in becomes the next state; a run has at most
\* MaxOps operations
CommitWith(r, op, g, objs, arg) ==
  /\ ops < MaxOps
  /\ ops' = ops + 1
  /\ Become(r, [op |-> op, g |-> g, objs |-> objs, arg |-> arg, err |-> r.err,
                trace |-> r.trace, hooks |-> r.hooks, steps |-> r.steps,
                ret |-> r.ret])

Commit(r, op, g, objs) == CommitWith(r, op, g, objs, <<>>)

\* a plain assignment to a field, as the tests make them
Assign(r, op, g) ==
  /\ ops' = ops
  /\ Become(r, [NoOp EXCEPT !.op = op, !.g = g])

\* ------------------------------------------------------------ the actions
\* new fabric.Group(objects, options, objectsRelativeToGroup); a listener
\* can issue the request pre when the list has an object to fire the event on
Construct(G, S, Opts, Rels, Pres) ==
  \E g \in G, objs \in {<<>>} \cup ArgLists(S), options \in Opts,
     rel \in Rels, pre \in Pres :
    /\ ~built[g]
    /\ pre.on # None
         => /\ Len(objs) > 0
            /\ pre.on = g \/ (pre.on \in Range(objs) /\ pre.on \in Groups)
    /\ CommitWith(Initialize(St, g, objs, options, rel, pre), "new", g, objs,
                  <<rel>>)

\* group.add(...objects)
DoAdd(G, S) ==
  \E g \in G, objs \in ArgLists(S) :
    /\ built[g]
    /\ Commit(Add(St, g, objs, NoScript), "add", g, objs)

\* group.insertAt(objects, index)
DoInsertAt(G, S) ==
  \E g \in G, objs \in ArgLists(S) :
   \E index \in 0..Len(objects[g]) :
    /\ built[g]
    /\ Commit(InsertAt(St, g, objs, index, NoScript), "insertAt", g, objs)

\* group.remove(...objects)
DoRemove(G, S) ==
  \E g \in G, objs \in ArgLists(S) :
    /\ built[g]
    /\ Commit(Remove(St, g, objs, NoScript), "remove", g, objs)

\* group.removeAll()
DoRemoveAll(G) ==
  \E g \in G :
    /\ built[g]
    /\ Commit(RemoveAll(St, g, NoScript), "removeAll", g, <<>>)

\* group.invalidate(context)
DoInvalidate(G) ==
  \E g \in G :
    /\ built[g]
    /\ Commit(Invalidate(St, g), "invalidate", g, <<>>)

\* group.triggerLayout(context); script: a layout request issued on the
\* group from inside the pass
DoTriggerLayout(G, Ovs, Scrs) ==
  \E g \in G, override \in Ovs, script \in Scrs :
    /\ built[g]
    /\ CommitWith(TriggerLayout(St, g, override, script), "triggerLayout", g,
                  <<>>, <<override>>)

\* group.set('layout', value)
DoSetLayout(G) ==
  \E g \in G, value \in Layouts :
    /\ built[g]
    /\ Commit(SetLayout(St, g, value, NoScript), "setLayout", g, <<>>)

\* group.dirty = false, as the tests do before an operation
DoClearDirty(G) ==
  \E g \in G :
    /\ built[g]
    /\ dirty[g]
    /\ Commit([St EXCEPT !.dirty[g] = FALSE], "clearDirty", g, <<>>)

\* group.set('canvas', value), as canvas.add(group) does; a plain
\* assignment that is not counted as an operation
DoSetCanvas(G) ==
  \E g \in G, value \in {None, TheCanvas} :
    /\ built[g]
    /\ Assign(SetCanvas(St, g, value), "setCanvas", g)

\* new fabric.ActiveSelection(objects), of different objects
DoSelect(S) ==
  \E objs \in ArgLists(S) :
    /\ selected = <<>>
    /\ Cardinality(Range(objs)) = Len(objs)
    /\ Assign(Select(St, objs), "select", None)

\* group.set('interactive', value)
DoSetInteractive(G) ==
  \E g \in G, value \in BOOLEAN :
    /\ built[g]
    /\ interactive[g] # value
    /\ Assign(SetInteractive(St, g, value), "interactive", g)

\* group.set('interactive', value) with the value the group has
DoSetInteractiveSame(G) ==
  \E g \in G :
    /\ built[g]
    /\ Assign(SetInteractive(St, g, interactive[g]), "interactive", g)

\* a child that its group monitors is moved by move and fires 'modified'
DoChildModified(S, Moves) ==
  \E object \in Existing(S), move \in Moves :
    /\ group[object] \in Groups
    /\ Watches(St, group[object], object)
    /\ CommitWith(
         FireModified(AdjustObjectPosition(St, object, move), object, 1),
         "modified", group[object], <<object>>, <<move>>)

\* a child that a group monitors fires 'selected' or 'deselected'; the
\* events are not counted as operations, and an active set takes at most
\* MaxArgs entries
DoChildSelection(S) ==
  \E object \in S, isSelected \in BOOLEAN :
    /\ \E g \in Groups : Watches(St, g, object)
    /\ isSelected
         => \A g \in Groups :
              Watches(St, g, object) => Len(activeObjects[g]) < MaxArgs
    /\ ops' = ops
    /\ Become(FireSelection(St, object, isSelected, 1),
              [NoOp EXCEPT !.op = IF isSelected THEN "selected"
                                 ELSE "deselected",
                           !.g = group[object], !.objs = <<object>>])

\* the selection is disposed of
DoDispose ==
  /\ selected # <<>>
  /\ Assign(Dispose(St), "dispose", None)

\* group.dispose()
DoGroupDispose(G) ==
  \E g \in G :
    /\ built[g]
    /\ ~disposed[g]
    /\ Commit(GroupDispose(St, g), "disposeGroup", g, <<>>)

\* an object fires 'modified' or 'changed' after a move, or 'selected' or
\* 'deselected', whether or not a group listens
DoSignal(S, Moves) ==
  \E object \in S, move \in Moves,
     signal \in {"modified", "changed", "selected", "deselected"} :
    /\ signal \in {"selected", "deselected"} => move = Pt(0, 0)
    /\ signal \in {"modified", "changed"} => move # Pt(0, 0)
    /\ CommitWith(
         IF signal \in {"modified", "changed"}
         THEN FireModified(AdjustObjectPosition(St, object, move), object, 1)
         ELSE FireSelection(St, object, signal = "selected", 1),
         "signal", group[object], <<object>>, <<signal>>)

\* fabric.Group.fromObject(record) for the record of a group that is in no
\* group, whole or without its position or size keys, on a tree in which
\* every listed object is listed once and has entered; the new group takes
\* the place of the old one, and arg keeps the record of the old one and
\* the record given
DoFromObject(G) ==
  \E g \in G, hasPos \in BOOLEAN, hasSize \in BOOLEAN :
    /\ built[g]
    /\ firstLayoutDone[g]
    /\ group[g] = None
    /\ \A h \in Groups :
         /\ Cardinality(Range(objects[h])) = Len(objects[h])
         /\ \A x \in Range(objects[h]) : group[x] = h
    /\ CommitWith(
         FromObject(St, g, [ToObject(St, g) EXCEPT !.hasPos = hasPos,
                                                   !.hasSize = hasSize]),
         "fromObject", g, <<>>,
         <<ToObject(St, g), [ToObject(St, g) EXCEPT !.hasPos = hasPos,
                                                    !.hasSize = hasSize]>>)

\* registry.register(type, {json: handler})
DoRegister(Keys, Hs) ==
  \E type \in Keys, handler \in Hs :
    CommitWith(
      Register(St, type, [present |-> TRUE, json |-> handler, svg |-> None]),
      "register", None, <<>>, <<type, handler>>)

\* registry.registerClass(key, klass), klass.fromObject being handler
DoRegisterClass(Keys, Hs) ==
  \E key \in Keys, handler \in Hs :
    CommitWith(
      RegisterClass(St, key, [fromObject |-> handler, fromElement |-> None]),
      "registerClass", None, <<>>, <<key, handler>>)

\* registry.getJSONHandler(data) and registry.getJSONHandler(data, strict);
\* strict is true when it is not given
DoGetJSONHandler(Records) ==
  \E data \in Records, strict \in {"default", "true", "false"} :
    CommitWith(GetJSONHandler(St, data, strict # "false"),
               "getJSONHandler", None, <<>>, <<data, strict>>)

\* group._enterGroup(object, true) followed at once by
\* group._exitGroup(object, false), on an object outside every group; arg
\* keeps the object's transform before the two calls
DoEnterExit(G, S) ==
  \E g \in G, object \in S :
    /\ built[g]
    /\ group[object] = None
    /\ CanEnterGroup(St, g, object) = "ok"
    /\ CommitWith(
         ExitGroupInner(EnterGroupInner(St, g, object, TRUE), g, object, FALSE),
         "enterExit", g, <<object>>, <<CalcTransformMatrix(St, object)>>)

\* object.set(key, value) on an object of the selection
DoObjectSet(Keys, Values) ==
  \E i \in 1..Len(selected), key \in Keys, value \in Values :
    CommitWith(ObjectSet(St, selected[i], key, value), "set", None,
               <<selected[i]>>, <<key, value>>)

\* activeSelection.set(key, value)
DoSelectionSet(Keys, Values) ==
  \E key \in Keys, value \in Values :
    /\ Len(selected) > 0
    /\ CommitWith(SelectionSet(St, key, value), "selectionSet", None,
                  selected, <<key, value>>)

\* group.ownCaching = value
DoSetOwnCaching(G) ==
  \E g \in G, value \in BOOLEAN :
    /\ built[g]
    /\ ownCaching[g] # value
    /\ Assign([St EXCEPT !.ownCaching[g] = value], "ownCaching", g)

\* group.drawObject(ctx, { filter })
DoDrawObject(G, Fs) ==
  \E g \in G, filter \in Fs :
    /\ built[g]
    /\ CommitWith([St EXCEPT !.ret = DrawObject(St, g, filter, 1)],
                  "drawObject", g, <<>>, <<filter>>)

\* fireEvent(eventName, options)
DoFireEvent(S, Names) ==
  \E eventName \in Names, options \in EventOptions(Existing(S)) :
    CommitWith([St EXCEPT !.ret = FireEvent(St, eventName, options)],
               "fireEvent", None, <<options.transform.target>>,
               <<eventName, options>>)

\* canvas.preserveObjectStacking = value
DoSetPreserve ==
  \E value \in BOOLEAN :
    /\ preserveObjectStacking # value
    /\ Assign([St EXCEPT !.preserveObjectStacking = value], "preserve", None)

\* g.dirty = false; activeSelection.dirty = false; obj.dirty = false
DoClearAll ==
  /\ \E x \in Ids : dirty[x]
  /\ Assign([St EXCEPT !.dirty = [x \in Ids |-> FALSE],
                       !.selection.dirty = FALSE],
            "clearAll", None)

\* ------------------------------------------------- membership operations
\* groups g1 and g2 and the leaf o1, constructed without options
TreeGroups == {"g1", "g2"}
TreeObjects == TreeGroups \cup {"o1"}

TreeNext ==
  \/ Construct(TreeGroups, TreeObjects, {NoOptions}, {FALSE}, {NoPre})
  \/ DoAdd(TreeGroups, TreeObjects)
  \/ DoInsertAt(TreeGroups, TreeObjects)
  \/ DoRemove(TreeGroups, TreeObjects)
  \/ DoRemoveAll(TreeGroups)
  \/ DoClearDirty(TreeGroups)

TreeSpec == Init /\ [][TreeNext]_vars

\* ----------------------------------------------------- membership claims
\* the groups in the child list of g
ChildGroups(g) == {x \in Groups : x \in Range(objects[g])}

\* the groups reached from those of S in at most n steps down child lists
RECURSIVE Reach(_, _)
Reach(S, n) ==
  IF n = 0 THEN S
  ELSE Reach(S \cup UNION {ChildGroups(x) : x \in S}, n - 1)

\* the step is a call of add or insertAt
IsAdding(op) == op.op \in {"add", "insertAt"}

\* C1: no object is in the child lists of two different groups at the same
\* time
C1_SingleOwnership ==
  \A x \in Ids : \A g \in Groups, h \in Groups :
    (x \in Range(objects[g]) /\ x \in Range(objects[h])) => g = h

\* C2: no group is reached from itself by following child lists
C2_Acyclic ==
  \A g \in Groups : g \notin Reach(ChildGroups(g), Cardinality(Groups))

\* C3: an add or insertAt that is rejected because the group would become a
\* descendant of itself leaves every child list, every group back-reference
\* and every width, height and dirty flag as they were before the call
C3_RejectedAddChangesNothing ==
  [][(IsAdding(lastOp') /\ lastOp'.err = "self")
       => /\ objects' = objects
          /\ group' = group
          /\ width' = width
          /\ height' = height
          /\ dirty' = dirty]_vars

\* C4: after an add or insertAt call on a group with an object that is a
\* direct member of it (once in its child list, its back-reference naming the
\* group), the child list holds the object exactly once and the
\* back-reference still names the group
C4_DuplicateHeldOnce ==
  [][IsAdding(lastOp')
       => \A i \in 1..Len(lastOp'.objs) :
            (/\ group[lastOp'.objs[i]] = lastOp'.g
             /\ Count(objects[lastOp'.g], lastOp'.objs[i]) = 1)
            => /\ Count(objects'[lastOp'.g], lastOp'.objs[i]) = 1
               /\ group'[lastOp'.objs[i]] = lastOp'.g]_vars

\* C5: when an add call with several different objects rejects one of them,
\* every object of the call that canEnterGroup accepts is in the group
\* afterwards, and the 'added' layout pass has run on the group and the group
\* is dirty
C5_OthersStillEnter ==
  [][(/\ lastOp'.op = "add"
      /\ Len(lastOp'.objs) > 1
      /\ Cardinality(Range(lastOp'.objs)) = Len(lastOp'.objs)
      /\ lastOp'.err # "none")
       => \A i \in 1..Len(lastOp'.objs) :
            CanEnterGroup(St, lastOp'.g, lastOp'.objs[i]) = "ok"
            => /\ group'[lastOp'.objs[i]] = lastOp'.g
               /\ lastOp'.objs[i] \in Range(objects'[lastOp'.g])
               /\ \E j \in 1..Len(lastOp'.trace) :
                    /\ lastOp'.trace[j].g = lastOp'.g
                    /\ lastOp'.trace[j].type = "added"
               /\ dirty'[lastOp'.g]]_vars

\* the layout request that a call of add, insertAt or remove on g must make:
\* of the given type, made by the call itself, with the changed objects as
\* targets, after each of them has entered (or left) g and before g is
\* marked dirty by the call
IsChangePass(call, g, type, changed, flag) ==
  /\ call.g = g
  /\ call.type = type
  /\ call.path = <<>>
  /\ call.targets = changed
  /\ \A i \in 1..Len(changed) : (call.owners[i] = g) <=> (type = "added")
  /\ \A i \in 1..Len(changed) :
       (changed[i] \in Range(call.members)) <=> (type = "added")
  /\ call.dirty = flag

\* the operation op made exactly one such request
OneChangePass(op, changed, flag) ==
  Cardinality({j \in 1..Len(op.trace) :
                 /\ op.trace[j].g = op.g
                 /\ op.trace[j].path = <<>>
                 /\ op.trace[j].type = IF IsAdding(op) THEN "added" ELSE "removed"})
    = 1
  /\ \E j \in 1..Len(op.trace) :
       IsChangePass(op.trace[j], op.g,
                    IF IsAdding(op) THEN "added" ELSE "removed", changed, flag)

\* C13: every add, insertAt and remove call makes, after the enter or exit
\* protocol of its objects, exactly one layout request of type 'added' or
\* 'removed' whose targets are the changed objects, then marks the group
\* dirty: the group is dirty after the call
C13_EnterLayoutDirty ==
  [][lastOp'.op \in {"add", "insertAt", "remove"}
       => /\ OneChangePass(lastOp',
               IF IsAdding(lastOp') THEN lastOp'.objs ELSE lastOp'.ret,
               dirty[lastOp'.g])
          /\ dirty'[lastOp'.g]]_vars

\* ------------------------------------------------------ layout operations
\* the group g2 built from the leaf o2 without options, the group g1 built
\* from o1 and g2 with any options
LayoutGroups == {"g1", "g2"}

ConstructChild == Construct({"g2"}, {"o2"}, {NoOptions}, {FALSE}, {NoPre})
ConstructParent ==
  Construct({"g1"}, {"o1", "g2"}, ConstructOptions, BOOLEAN, {NoPre})

\* requests that arrive inside a running pass
ReentryNext ==
  \/ ConstructChild
  \/ ConstructParent
  \/ DoTriggerLayout(LayoutGroups, {NoOverride}, Scripts)

ReentrySpec == Init /\ [][ReentryNext]_vars

\* requests that arrive before the initialization layout
InitNext ==
  \/ ConstructChild
  \/ Construct({"g1"}, {"o1", "g2"}, ConstructOptions, BOOLEAN, PreRequests)
  \/ DoTriggerLayout(LayoutGroups, {NoOverride}, {NoScript})

InitSpec == Init /\ [][InitNext]_vars

\* 'progress' requests among the other requests
ProgressNext ==
  \/ ConstructChild
  \/ ConstructParent
  \/ DoTriggerLayout(LayoutGroups, Overrides, {NoScript})
  \/ DoSetLayout(LayoutGroups)
  \/ DoInvalidate(LayoutGroups)

ProgressSpec == Init /\ [][ProgressNext]_vars

\* a mutation of the group g2, which is inside g1: g2 is built from o2
\* and g1 from g2, each in fit-content or in fixed mode; o1 is added to g2,
\* objects are removed from it, its monitored children are moved, and its
\* layout is set
FixedOptions ==
  [DefaultOptions EXCEPT !.layout = "fixed", !.hasSize = TRUE, !.width = 8,
                         !.height = 8]
ChildMoves == {Pt(6, 0), Pt(-2, -4)}

BubbleNext ==
  \/ Construct({"g2"}, {"o2"}, {NoOptions, FixedOptions}, {FALSE}, {NoPre})
  \/ Construct({"g1"}, {"g2"}, {NoOptions, FixedOptions}, {FALSE}, {NoPre})
  \/ DoSetInteractive({"g2"})
  \/ DoAdd({"g2"}, {"o1"})
  \/ DoRemove({"g2"}, {"o1", "o2"})
  \/ DoSetLayout({"g2"})
  \/ DoChildModified({"o1", "o2"}, ChildMoves)

BubbleSpec == Init /\ [][BubbleNext]_vars

\* ----------------------------------------------------------- layout claims
\* the calls of _applyLayoutStrategy made by the last operation
Calls == {lastOp.trace[i] : i \in 1..Len(lastOp.trace)}

\* the call returned without a change of geometry, without the layout hook
\* and without a call of the parent
Inert(call) == ~call.geometryChanged /\ ~call.hooked /\ ~call.bubbled

\* C6: a request of any type that reaches _applyLayoutStrategy of a group
\* while a pass of that group is in progress changes neither the width,
\* height and position of the group nor the position of any of its children
C6_InProgressDropped ==
  \A call \in Calls : call.layoutInProgress => ~call.ownGeometryChanged

\* C7: a request of a type other than 'initialization' that reaches a group
\* before its initialization layout is done changes no geometry, calls no
\* layout hook and is not bubbled to the parent
C7_RejectedBeforeFirstLayout ==
  \A call \in Calls :
    (call.type # "initialization" /\ ~call.firstLayoutDone) => Inert(call)

\* C7 happens: a constructor whose layout option caused a layout_change
\* request, and a request bubbled from a child, both before the
\* initialization layout of the new group
C7_Witness ==
  /\ lastOp.op = "new"
  /\ \E call \in Calls :
       /\ call.g = lastOp.g
       /\ call.type = "layout_change"
       /\ ~call.firstLayoutDone
  /\ \E call \in Calls :
       /\ call.g = lastOp.g
       /\ call.type \notin {"initialization", "layout_change"}
       /\ call.path # <<>>
       /\ ~call.firstLayoutDone
  /\ firstLayoutDone[lastOp.g]

\* C8: a 'progress' request changes no size and no position of any object,
\* calls no layout hook and is not bubbled to the parent
C8_ProgressChangesNothing ==
  \A call \in Calls : call.type = "progress" => Inert(call)

\* C8 happens: invalidate on a group that has had its first layout, has no
\* pass in progress, has a parent, and whose layout mode would give a result
\* for an imperative request
C8_Witness ==
  /\ lastOp.op = "invalidate"
  /\ group[lastOp.g] \in Groups
  /\ \E call \in Calls :
       /\ call.g = lastOp.g
       /\ call.type = "progress"
       /\ call.firstLayoutDone
       /\ ~call.layoutInProgress
  /\ GetLayoutStrategyResult(St, lastOp.g, layout[lastOp.g],
       objects[lastOp.g], Context("imperative")).ok

\* ------------------------------------------------------- dirty operations
\* the group g1 built from the leaf o1, the group g2 built from g1, with or
\* without a canvas; then a selection of o1, and property sets
DirtyGroups == {"g1", "g2"}
PropertyValues == {0, 1}
CanvasOptions == {NoOptions, [DefaultOptions EXCEPT !.canvas = TheCanvas]}

DirtyNext ==
  \/ selected = <<>> /\ Construct({"g1"}, {"o1"}, CanvasOptions, {FALSE}, {NoPre})
  \/ selected = <<>> /\ Construct({"g2"}, {"g1"}, CanvasOptions, {FALSE}, {NoPre})
  \/ DoSelect({"o1"})
  \/ DoObjectSet({"fill", "angle"}, PropertyValues)
  \/ DoSelectionSet({"fill", "angle", "foo"}, PropertyValues)
  \/ DoInvalidate(DirtyGroups)
  \/ DoSetOwnCaching(DirtyGroups)
  \/ DoSetPreserve
  \/ DoClearAll

DirtySpec == Init /\ [][DirtyNext]_vars

\* ------------------------------------------------------------ dirty claims
\* the groups above x: its group, the group of its group, ...
RECURSIVE OwnerChain(_, _)
OwnerChain(x, n) ==
  IF n = 0 \/ group[x] = None THEN {}
  ELSE {group[x]} \cup OwnerChain(group[x], n - 1)

\* g or a group above it is caching
OnACache(g) ==
  ownCaching[g] \/ \E h \in OwnerChain(g, Cardinality(Groups)) : ownCaching[h]

\* the canvas of g is absent or preserves object stacking
StackingKept(g) == canvas[g] = None \/ preserveObjectStacking

\* C9 as stated: an invalidate call leaves the group dirty
C9_InvalidateLeavesDirty ==
  lastOp.op = "invalidate" => dirty[lastOp.g]

\* C9 amended: an invalidate call leaves the group dirty when the group is
\* on a cache and its canvas is absent or preserves object stacking, and
\* leaves the dirty flag as it was otherwise
C9_InvalidateDirtiesCached ==
  [][lastOp'.op = "invalidate"
       => dirty'[lastOp'.g]
            = (dirty[lastOp'.g] \/ (OnACache(lastOp'.g) /\ StackingKept(lastOp'.g)))
    ]_vars

\* C9 happens: after invalidate on a group that caches through the group
\* above it, on a canvas that preserves stacking, the group is the only
\* dirty object
C9_Witness ==
  /\ lastOp.op = "invalidate"
  /\ ~ownCaching[lastOp.g]
  /\ OnACache(lastOp.g)
  /\ canvas[lastOp.g] = TheCanvas
  /\ preserveObjectStacking
  /\ \A x \in Ids : dirty[x] <=> x = lastOp.g

\* C10: when a property is set on a member of the selection or on the
\* selection, the owning group of a member, clean before, is dirty afterwards
\* exactly when the property is cache- or state-relevant, the value is
\* new, the group is on a cache and its canvas is absent or preserves object
\* stacking
C10_OwnerDirtyExactlyWhen ==
  [][lastOp'.op \in {"set", "selectionSet"}
       => \A i \in 1..Len(lastOp'.objs) :
            (group[lastOp'.objs[i]] \in Groups /\ ~dirty[group[lastOp'.objs[i]]])
            => dirty'[group[lastOp'.objs[i]]]
                 = (/\ lastOp'.arg[1] \in {"fill", "angle"}
                    /\ IF lastOp'.op = "set"
                       THEN props[lastOp'.objs[i]][lastOp'.arg[1]] # lastOp'.arg[2]
                       ELSE selection[lastOp'.arg[1]] # lastOp'.arg[2]
                    /\ OnACache(group[lastOp'.objs[i]])
                    /\ StackingKept(group[lastOp'.objs[i]]))
    ]_vars

\* C10 happens: the angle of the selection has been set to a new value, and
\* of all objects only the owning group of a member, which caches through
\* the group above it, is dirty
C10_Witness ==
  /\ lastOp.op = "selectionSet"
  /\ lastOp.arg = <<"angle", 1>>
  /\ selection.angle = 1
  /\ ~selection.dirty
  /\ \E i \in 1..Len(selected) :
       /\ group[selected[i]] \in Groups
       /\ ~ownCaching[group[selected[i]]]
       /\ OnACache(group[selected[i]])
       /\ \A x \in Ids : dirty[x] <=> x = group[selected[i]]

\* --------------------------------------------------- selection operations
\* the group g1 built from o1 and o2; selections of its objects are made
\* and disposed of, and properties are set
SelectionNext ==
  \/ selected = <<>>
       /\ Construct({"g1"}, {"o1", "o2"}, {NoOptions}, {FALSE}, {NoPre})
  \/ built["g1"] /\ DoSelect({"o1", "o2"})
  \/ DoDispose
  \/ DoObjectSet({"fill"}, PropertyValues)
  \/ DoSelectionSet({"angle"}, PropertyValues)
  \/ DoSetOwnCaching({"g1"})
  \/ DoClearAll

SelectionSpec == Init /\ [][SelectionNext]_vars

C12_SelectionKeepsOwner ==
  [][/\ lastOp'.op = "select"
        => \A i \in 1..Len(selected') :
             group[selected'[i]] \in Groups
             => /\ group'[selected'[i]] = group[selected'[i]]
                /\ objects'[group[selected'[i]]] = objects[group[selected'[i]]]
                /\ selected'[i] \in Range(objects'[group[selected'[i]]])
                /\ EffectiveGroup(St', selected'[i]) = TheSelection
     /\ lastOp'.op = "dispose"
        => \A i \in 1..Len(selected) :
             /\ EffectiveGroup(St, selected[i]) = TheSelection
             /\ EffectiveGroup(St', selected[i]) = group[selected[i]]
             /\ group'[selected[i]] = group[selected[i]]]_vars

\* C12 happens: a selection of an object owned by a group has been made and
\* disposed of, and the object is in the group as before
C12_Witness ==
  /\ lastOp.op = "dispose"
  /\ selected = <<>>
  /\ \E g \in Groups :
       /\ Len(objects[g]) = 2
       /\ \A i \in 1..2 :
            /\ group[objects[g][i]] = g
            /\ EffectiveGroup(St, objects[g][i]) = g

\* ------------------------------------------------------ propagation claims
\* the children of the group a lie inside its width and height (their
\* positions are relative to its center)
Encloses(a) ==
  \A i \in 1..Len(objects[a]) :
    /\ -Half(width[a]) <= left[objects[a][i]]
    /\ left[objects[a][i]] + width[objects[a][i]] <= Half(width[a])
    /\ -Half(height[a]) <= top[objects[a][i]]
    /\ top[objects[a][i]] + height[objects[a][i]] <= Half(height[a])

\* the step is an add or insertAt call that returned, a remove call that
\* removed an object, or the modification of a monitored child
IsMutation(op) ==
  /\ op.op \in {"add", "insertAt", "remove", "modified"}
  /\ op.err = "none"
  /\ op.op = "remove" => op.ret # <<>>

\* C14: after a mutation of a group, every group above it (that has had its
\* initialization layout) has received the layout request, and every one
\* of them in fit-content mode encloses its children
C14_ReachesEveryAncestor ==
  IsMutation(lastOp)
    => \A a \in OwnerChain(lastOp.g, Cardinality(Groups)) :
         firstLayoutDone[a]
         => /\ \E call \in Calls : call.g = a /\ call.path # <<>>
            /\ layout[a] = "fit-content" => Encloses(a)

\* C14 amended: in a mutation of a group, a layout request that ends with a
\* result is passed on to the group's parent, and one that ends without a
\* result (the group is in fixed mode, or has no children left) is not, so
\* that the groups above it do not receive the request; every fit-content
\* group above the mutated one that completes the request encloses its
\* children
C14_ForwardedWhileResult ==
  IsMutation(lastOp)
    => /\ \E call \in Calls : call.g = lastOp.g /\ call.path = <<>>
       /\ \A call \in Calls :
            call.bubbled <=> (call.hooked /\ group[call.g] \in Groups)
       /\ \A a \in OwnerChain(lastOp.g, Cardinality(Groups)) :
            (/\ layout[a] = "fit-content"
             /\ \E call \in Calls : call.g = a /\ call.hooked)
            => Encloses(a)

\* C14 happens: the move of a monitored child of a fit-content group inside
\* a fit-content group has changed the size of both groups
C14_Witness ==
  /\ lastOp.op = "modified"
  /\ group[lastOp.g] \in Groups
  /\ layout[lastOp.g] = "fit-content"
  /\ layout[group[lastOp.g]] = "fit-content"
  /\ \E call \in Calls :
       call.g = lastOp.g /\ call.ownGeometryChanged /\ call.bubbled
  /\ \E call \in Calls :
       call.g = group[lastOp.g] /\ call.path = <<lastOp.g>>
         /\ call.ownGeometryChanged
  /\ Encloses(group[lastOp.g])

\* --------------------------------------------------------- geometry claims
\* each side of the group a is touched by one of its children
Tight(a) ==
  /\ \E i \in 1..Len(objects[a]) : left[objects[a][i]] = -Half(width[a])
  /\ \E i \in 1..Len(objects[a]) :
       left[objects[a][i]] + width[objects[a][i]] = Half(width[a])
  /\ \E i \in 1..Len(objects[a]) : top[objects[a][i]] = -Half(height[a])
  /\ \E i \in 1..Len(objects[a]) :
       top[objects[a][i]] + height[objects[a][i]] = Half(height[a])

\* the width and height of a are the extents of the union of its
\* children's boxes, and the union is centered in a
FitsChildren(a) == Encloses(a) /\ Tight(a)

\* the left, top, width and height of every object
Boxes == <<left, top, width, height>>

\* the calls of _applyLayoutStrategy on g with type 'layout_change' that
\* the operation itself made
LayoutChangeCalls(op) ==
  {j \in 1..Len(op.trace) :
     /\ op.trace[j].g = op.g
     /\ op.trace[j].type = "layout_change"
     /\ op.trace[j].path = <<>>}

\* C15: setting the layout of a group that has had its first layout to a
\* different value makes exactly one 'layout_change' request on the group,
\* which, when the group has a child, ends with a result: the group then
\* fits its children; setting it to the current value makes no request
C15_LayoutChangeRecomputes ==
  [][(lastOp'.op = "setLayout" /\ firstLayoutDone[lastOp'.g])
       => IF layout'[lastOp'.g] # layout[lastOp'.g]
          THEN /\ Cardinality(LayoutChangeCalls(lastOp')) = 1
               /\ objects[lastOp'.g] # <<>>
                  => /\ \A j \in LayoutChangeCalls(lastOp') :
                          lastOp'.trace[j].hooked
                     /\ \E g \in Groups : g = lastOp'.g /\ FitsChildren(g)'
          ELSE lastOp'.trace = <<>> /\ Boxes' = Boxes]_vars

\* C15 amended: setting the layout of a group that has had its first layout
\* to a different value makes exactly one 'layout_change' request on the
\* group; with the new value 'fit-content' or 'fit-content-lazy' and a child
\* in the group it ends with a result and the group fits its children; with
\* the new value 'fixed', or 'clip-path' without a clip region, it ends
\* without a result and no size or position changes; setting the layout to
\* the current value makes no request
C15_LayoutChangeByMode ==
  [][(lastOp'.op = "setLayout" /\ firstLayoutDone[lastOp'.g])
       => IF layout'[lastOp'.g] # layout[lastOp'.g]
          THEN /\ Cardinality(LayoutChangeCalls(lastOp')) = 1
               /\ (/\ layout'[lastOp'.g] \in {"fit-content", "fit-content-lazy"}
                   /\ objects[lastOp'.g] # <<>>)
                  => /\ \A j \in LayoutChangeCalls(lastOp') :
                          lastOp'.trace[j].hooked
                     /\ \E g \in Groups : g = lastOp'.g /\ FitsChildren(g)'
               /\ (\/ layout'[lastOp'.g] = "fixed"
                   \/ /\ layout'[lastOp'.g] = "clip-path"
                      /\ ~clipPath[lastOp'.g].present)
                  => /\ \A j \in LayoutChangeCalls(lastOp') :
                          ~lastOp'.trace[j].hooked
                     /\ Boxes' = Boxes
          ELSE lastOp'.trace = <<>> /\ Boxes' = Boxes]_vars

\* C15 happens: a group of two objects has been set to fit-content; the
\* request changed its geometry, and it fits its children now
C15_Witness ==
  /\ lastOp.op = "setLayout"
  /\ layout[lastOp.g] = "fit-content"
  /\ \E j \in LayoutChangeCalls(lastOp) :
       /\ lastOp.trace[j].ownGeometryChanged
       /\ lastOp.trace[j].hooked
  /\ Len(objects[lastOp.g]) = 2
  /\ FitsChildren(lastOp.g)

\* C16: a request of type 'added', 'removed', 'object_modified' or
\* 'layout_change' on a group in 'fixed' mode changes neither the width,
\* height and position of the group nor the position of any of its children,
\* and calls no layout hook
C16_FixedKeepsGeometry ==
  \A call \in Calls :
    (/\ call.layout = "fixed"
     /\ call.type \in {"added", "removed", "object_modified", "layout_change"})
    => ~call.ownGeometryChanged /\ ~call.hooked

\* C16 happens: an object has been added to a group in 'fixed' mode that
\* has had its first layout; the group does not enclose it
C16_Witness ==
  /\ lastOp.op = "add"
  /\ lastOp.err = "none"
  /\ layout[lastOp.g] = "fixed"
  /\ \E call \in Calls :
       /\ call.g = lastOp.g
       /\ call.type = "added"
       /\ call.layout = "fixed"
       /\ call.firstLayoutDone
  /\ ~Encloses(lastOp.g)

\* C17: after its construction, an add, insertAt or remove call or the move
\* of a monitored child, a group in fit-content mode with a child has the
\* width and height of the union of its children's boxes, and its center is
\* the center of the union
C17_FitContentFitsChildren ==
  (/\ lastOp.op \in {"new", "add", "insertAt", "remove", "modified"}
   /\ lastOp.err = "none"
   /\ layout[lastOp.g] = "fit-content"
   /\ firstLayoutDone[lastOp.g]
   /\ objects[lastOp.g] # <<>>)
  => FitsChildren(lastOp.g)

\* ----------------------------------------------------------- plane claims
PlaneNext ==
  \/ Construct({"g2"}, {"o2"}, {NoOptions, FixedOptions}, {FALSE}, {NoPre})
  \/ Construct({"g1"}, {"g2", "o1"}, {NoOptions, FixedOptions}, {FALSE}, {NoPre})
  \/ DoRemove({"g1", "g2"}, {"o1", "o2"})
  \/ DoEnterExit({"g1", "g2"}, {"o1", "o2"})

PlaneSpec == Init /\ [][PlaneNext]_vars

ActiveNext ==
  \/ Construct({"g1"}, {"o1", "o2"}, CanvasOptions, {FALSE}, {NoPre})
  \/ DoSetInteractive({"g1"})
  \/ DoChildSelection({"o1", "o2"})
  \/ DoAdd({"g1"}, {"o1", "o2"})
  \/ DoInsertAt({"g1"}, {"o1"})
  \/ DoRemove({"g1"}, {"o1", "o2"})
  \/ DoRemoveAll({"g1"})

ActiveSpec == Init /\ [][ActiveNext]_vars

\* C19: when remove returns on a constructed group, every member it was
\* given is out of the child list, has no group and no canvas, and is in the
\* returned list; removeAll returns every former child and leaves the child
\* list and the active set empty
C19_RemovedIsOut ==
  [][/\ (lastOp'.op = "remove" /\ lastOp'.err = "none")
        => \A g \in Groups, o \in Range(lastOp'.objs) :
             (g = lastOp'.g /\ firstLayoutDone[g] /\ o \in Range(objects[g]))
               => /\ o \notin Range(objects'[g])
                  /\ group'[o] = None
                  /\ canvas'[o] = None
                  /\ o \in Range(lastOp'.ret)
     /\ (lastOp'.op = "removeAll" /\ lastOp'.err = "none")
        => \A g \in Groups :
             (g = lastOp'.g /\ firstLayoutDone[g])
               => /\ Range(lastOp'.ret) = Range(objects[g])
                  /\ objects'[g] = <<>>
                  /\ activeObjects'[g] = <<>>]_vars

\* C20: every object in the active set of a group is in its child list
C20_ActiveAreMembers ==
  \A g \in Groups : Range(activeObjects[g]) \subseteq Range(objects[g])

\* --------------------------------------------------------- disposal claims
\* the group g2 built from o1 and the group g1 built from g2 and o2; the
\* groups are made interactive or not while they live, and disposed of; the
\* objects fire their signals before and after
DisposeNext ==
  \/ Construct({"g2"}, {"o1"}, {NoOptions}, {FALSE}, {NoPre})
  \/ Construct({"g1"}, {"g2", "o2"}, {NoOptions}, {FALSE}, {NoPre})
  \/ \E g \in {"g1", "g2"} : ~disposed[g] /\ DoSetInteractive({g})
  \/ DoGroupDispose({"g1", "g2"})
  \/ DoSignal({"o1", "o2", "g2"}, {Pt(0, 0)} \cup ChildMoves)

DisposeSpec == Init /\ [][DisposeNext]_vars

\* C21: when dispose has returned, no object has the disposed group as its
\* group
C21_ChildrenReleased ==
  lastOp.op = "disposeGroup" => \A x \in Ids : group[x] # lastOp.g

\* C22: a signal that a child of a disposed group fires changes neither the
\* geometry, nor the dirty flag, nor the active set of the group
C22_DisposedIgnoresSignals ==
  [][lastOp'.op = "signal"
       => \A g \in Groups :
            (disposed[g] /\ lastOp'.objs[1] \in Range(objects[g]))
              => /\ left'[g] = left[g] /\ top'[g] = top[g]
                 /\ width'[g] = width[g] /\ height'[g] = height[g]
                 /\ dirty'[g] = dirty[g]
                 /\ activeObjects'[g] = activeObjects[g]]_vars

\* a child of a group that was interactive when it was disposed of has
\* fired a signal
C22_Witness ==
  /\ lastOp.op = "signal"
  /\ lastOp.g \in Groups
  /\ disposed[lastOp.g]
  /\ interactive[lastOp.g]
  /\ lastOp.objs[1] \in Range(objects[lastOp.g])

\* ---------------------------------------------------- serialization claims
\* the group g2 built from o1 and o2 with any of the options, the group g1
\* built from g2; objects are added to g2 and removed from it, the groups
\* are made interactive, and a group is serialized and built again
SerialNext ==
  \/ Construct({"g2"}, {"o1", "o2"}, ConstructOptions, {FALSE}, {NoPre})
  \/ Construct({"g1"}, {"g2"}, ConstructOptions, {FALSE}, {NoPre})
  \/ DoSetInteractive({"g1", "g2"})
  \/ DoAdd({"g2"}, {"o1", "o2"})
  \/ DoRemove({"g2"}, {"o1", "o2"})
  \/ DoFromObject({"g1", "g2"})

SerialSpec == Init /\ [][SerialNext]_vars

\* C23: the record of the group built from the record of a group is the
\* record it was built from
C23_RoundTrip ==
  (lastOp.op = "fromObject" /\ lastOp.arg[2] = lastOp.arg[1])
    => ToObject(St, lastOp.g) = lastOp.arg[1]

\* C24: the children of a group built from a record, whole or not, have the
\* left and top of their own records
C24_ChildrenAsRecorded ==
  lastOp.op = "fromObject"
    => \A i \in 1..Len(objects[lastOp.g]) :
         /\ left[objects[lastOp.g][i]] = lastOp.arg[1].objects[i].left
         /\ top[objects[lastOp.g][i]] = lastOp.arg[1].objects[i].top

\* ---------------------------------------------------------- registry claims
RegistryNext ==
  \/ DoRegister(TypeKeys, Handlers)
  \/ DoRegisterClass(TypeKeys, Handlers)
  \/ DoGetJSONHandler(JSONRecords)

RegistrySpec == Init /\ [][RegistryNext]_vars

\* the record of the given type, without color stops
Typed(type) == [type |-> type, colorStops |-> FALSE]

C26_LegacyGradient ==
  lastOp.op = "getJSONHandler"
    => /\ (lastOp.arg[1].type = None /\ lastOp.arg[1].colorStops)
            => /\ ResolveJSONKey(lastOp.arg[1]) = "gradient"
               /\ lastOp.ret = <<HandlerOf(St, "gradient")>> \/ lastOp.err = "error"
       /\ ~lastOp.arg[1].colorStops
            => ResolveJSONKey(lastOp.arg[1]) = lastOp.arg[1].type

\* the handler registered for 'gradient' has been returned for a record
\* without a type that has color stops
C26_Witness ==
  /\ lastOp.op = "getJSONHandler"
  /\ lastOp.arg[1].type = None
  /\ lastOp.arg[1].colorStops
  /\ lastOp.ret # <<>>
  /\ lastOp.ret[1] \in Handlers

\* ------------------------------------------------------------ canvas claims
\* the group g2 built from o1, the group g1 built from g2 and o2, with or
\* without a canvas; the canvas of a group that is in no group is set, and
\* objects are added to the groups and removed from them
CanvasNext ==
  \/ Construct({"g2"}, {"o1"}, CanvasOptions, {FALSE}, {NoPre})
  \/ Construct({"g1"}, {"g2", "o2"}, CanvasOptions, {FALSE}, {NoPre})
  \/ \E g \in {"g1", "g2"} : group[g] = None /\ DoSetCanvas({g})
  \/ DoAdd({"g1", "g2"}, {"o1", "o2", "g2"})
  \/ DoRemove({"g1", "g2"}, {"o1", "o2", "g2"})

CanvasSpec == Init /\ [][CanvasNext]_vars

\* C27: every object whose group is a given group has the canvas of the
\* group
C27_CanvasOfGroup ==
  \A g \in Groups, x \in Ids : group[x] = g => canvas[x] = canvas[g]

\* ---------------------------------------------------- first layout claims
\* the options of a group constructed with g1 as its group
OwnedOptions == [DefaultOptions EXCEPT !.group = "g1"]

\* the group g1 built from o1; the group g2 built from o2, on its own or
\* with g1 as its group; objects are added and layouts are requested
OnceNext ==
  \/ Construct({"g1"}, {"o1"}, {NoOptions, FixedOptions}, {FALSE}, {NoPre})
  \/ built["g1"]
       /\ Construct({"g2"}, {"o2"}, {NoOptions, OwnedOptions}, {FALSE}, {NoPre})
  \/ DoAdd({"g1"}, {"g2", "o2"})
  \/ DoRemove({"g1", "g2"}, {"o1", "o2"})
  \/ DoTriggerLayout({"g1", "g2"}, {NoOverride}, {NoScript})

OnceSpec == Init /\ [][OnceNext]_vars

\* C28: a request of type 'initialization' that reaches a group whose
\* first layout is done changes no geometry, calls no layout hook and is not
\* passed on
C28_InitializationOnce ==
  \A call \in Calls :
    (call.type = "initialization" /\ call.firstLayoutDone) => Inert(call)

\* ------------------------------------------------------ clip region claims
\* the options of a group with an absolutely positioned clip region, in
\* clip-path and in fit-content mode
ClipOptions ==
  {[DefaultOptions EXCEPT !.layout = "clip-path", !.clipPath = AbsoluteClip],
   [DefaultOptions EXCEPT !.clipPath = AbsoluteClip]}

\* triggerLayout({ layout: 'clip-path' })
ClipOverride == [NoOverride EXCEPT !.given = TRUE, !.layout = "clip-path"]

\* the group g2 with an absolute clip region is built from o2 and g1 from
\* g2; o1 is added to g2, objects are removed from it, the groups are made
\* interactive, the children of g2 and g2 itself are moved, and the layout of
\* g2 is set and requested
ClipNext ==
  \/ Construct({"g2"}, {"o2"}, ClipOptions, {FALSE}, {NoPre})
  \/ Construct({"g1"}, {"g2"}, {NoOptions}, {FALSE}, {NoPre})
  \/ DoAdd({"g2"}, {"o1"})
  \/ DoRemove({"g2"}, {"o1", "o2"})
  \/ DoSetLayout({"g2"})
  \/ DoSetInteractive({"g1", "g2"})
  \/ DoChildModified({"o1", "o2", "g2"}, ChildMoves)
  \/ DoTriggerLayout({"g2"}, {NoOverride, ClipOverride}, {NoScript})

ClipSpec == Init /\ [][ClipNext]_vars

\* a request that reaches a built group in clip-path mode whose clip region
\* is absolutely positioned
OnAbsoluteClip(call) ==
  /\ call.layout = "clip-path"
  /\ clipPath[call.g].present /\ clipPath[call.g].absolutePositioned
  /\ call.type # "progress"
  /\ call.type = "initialization" \/ call.firstLayoutDone

\* the group has the size of its clip region and its center is the center
\* of the clip region in the plane of the group's parent
FollowsClip(g) ==
  /\ width[g] = clipPath[g].width /\ height[g] = clipPath[g].height
  /\ GetRelativeCenterPoint(St, g) =
       IF group[g] # None
       THEN PtSub(ClipCenter(clipPath[g]), CalcTransformMatrix(St, group[g]))
       ELSE ClipCenter(clipPath[g])

\* C29: after an operation, every group in clip-path mode with an
\* absolutely positioned clip region that a request other than 'progress'
\* reached has the size of the clip region and its center at the center of
\* the clip region, in the plane of the group's parent
C29_AbsoluteClipOnEveryTrigger ==
  \A call \in Calls : OnAbsoluteClip(call) => FollowsClip(call.g)

\* C29, amended: a request of type 'initialization' or 'layout_change'
\* leaves the group with the size and the center of its absolutely
\* positioned clip region; a request of type 'added', 'removed',
\* 'object_modified' or 'imperative' changes no geometry, calls no layout
\* hook and is not passed on
C29_AbsoluteClipOnFirstOrChange ==
  \A call \in Calls :
    OnAbsoluteClip(call) =>
      IF call.type \in {"initialization", "layout_change"}
      THEN FollowsClip(call.g)
      ELSE Inert(call)

\* C29: g2 is inside g1 and away from its clip region, and a layout change
\* to clip-path has brought it to the clip region
C29_Witness ==
  /\ lastOp.op = "setLayout" /\ lastOp.g = "g2" /\ group["g2"] = "g1"
  /\ \E call \in Calls :
       /\ OnAbsoluteClip(call) /\ call.type = "layout_change"
       /\ call.ownGeometryChanged
  /\ FollowsClip("g2")

\* -------------------------------------------------------- override claims
\* the values a caller hands to triggerLayout: any of a center, a size and a
\* correction
PartialOverrides ==
  {[NoOverride EXCEPT !.given = TRUE,
      !.hasCenter = c, !.centerX = IF c THEN 6 ELSE 0,
      !.centerY = IF c THEN -2 ELSE 0,
      !.hasSize = z, !.width = IF z THEN 12 ELSE 0,
      !.height = IF z THEN 8 ELSE 0,
      !.hasCorrection = k, !.correctionX = IF k THEN 2 ELSE 0,
      !.correctionY = IF k THEN -4 ELSE 0] : c, z, k \in BOOLEAN}

\* the group g1 is built from o1 and o2 in fit-content or in fixed mode;
\* objects are added and removed, and layouts are requested with values to
\* use; a group whose geometry is undefined is not followed further
OverrideNext ==
  \/ Construct({"g1"}, {"o1", "o2"}, {NoOptions, FixedOptions}, {FALSE},
               {NoPre})
  \/ ~nan["g1"] /\ DoAdd({"g1"}, {"o1", "o2"})
  \/ ~nan["g1"] /\ DoRemove({"g1"}, {"o1", "o2"})
  \/ ~nan["g1"] /\ DoTriggerLayout({"g1"}, PartialOverrides, {NoScript})

OverrideSpec == Init /\ [][OverrideNext]_vars

\* the value of a layout result that the caller's values c and the
\* computed box make together
Merged(c, box) ==
  [centerX |-> IF c.hasCenter THEN c.centerX ELSE box.centerX,
   centerY |-> IF c.hasCenter THEN c.centerY ELSE box.centerY,
   width |-> IF c.hasSize THEN c.width ELSE box.width,
   height |-> IF c.hasSize THEN c.height ELSE box.height,
   correctionX |-> IF c.hasCorrection THEN c.correctionX ELSE 0,
   correctionY |-> IF c.hasCorrection THEN c.correctionY ELSE 0]

\* the group g has the size of the values m and, where their center is not
\* the center it had (lines 608-610), their center, and each of its children
\* has moved by the old center less the new one plus the correction
TakesMerged(g, m) ==
  /\ ~nan'[g]
  /\ width'[g] = m.width /\ height'[g] = m.height
  /\ Pt(m.centerX, m.centerY) # GetRelativeCenterPoint(St, g)
       => GetRelativeCenterPoint(St', g) = Pt(m.centerX, m.centerY)
  /\ \A i \in 1..Len(objects[g]) :
       /\ left'[objects[g][i]] = left[objects[g][i]]
            + GetRelativeCenterPoint(St, g).x - m.centerX + m.correctionX
       /\ top'[objects[g][i]] = top[objects[g][i]]
            + GetRelativeCenterPoint(St, g).y - m.centerY + m.correctionY

\* C30: when triggerLayout has been called with values to use on a group in
\* fit-content or fixed mode whose first layout is done, the group's width,
\* height and center are defined; the size and a new center are the
\* caller's where given and those of the bounding box of the children
\* otherwise, and the children have moved by the old center less the new
\* one plus the correction, the caller's where given
C30_OverrideOverBox ==
  [][(/\ lastOp'.op = "triggerLayout" /\ lastOp'.err = "none"
      /\ lastOp'.arg[1].given
      /\ firstLayoutDone[lastOp'.g]
      /\ layout[lastOp'.g] \in {"fit-content", "fixed"})
       => TakesMerged(lastOp'.g,
            Merged(lastOp'.arg[1],
                   GetObjectsBoundingBox(St, lastOp'.g, objects[lastOp'.g])))
    ]_vars

\* ------------------------------------------------------------ lazy claims
\* the options of a group in fit-content-lazy mode, placed by its first
\* layout or at a given left and top
LazyOptions ==
  {[DefaultOptions EXCEPT !.layout = "fit-content-lazy"],
   [DefaultOptions EXCEPT !.layout = "fit-content-lazy", !.hasPos = TRUE,
                          !.left = -2, !.top = -2]}

\* the group g1 is built from o1 or o2 in fit-content-lazy mode, and objects
\* are added to it and removed from it
LazyNext ==
  \/ Construct({"g1"}, {"o1", "o2"}, LazyOptions, {FALSE}, {NoPre})
  \/ DoAdd({"g1"}, {"o1", "o2"})
  \/ DoRemove({"g1"}, {"o1", "o2"})

LazySpec == Init /\ [][LazyNext]_vars

\* C31: an add that returns, to a group in fit-content-lazy mode that has
\* children and whose box is the union of their boxes, leaves every object
\* with the position and size that the same add leaves in fit-content mode
C31_LazyAsFitContent ==
  [][(/\ lastOp'.op = "add" /\ lastOp'.err = "none"
      /\ layout[lastOp'.g] = "fit-content-lazy"
      /\ firstLayoutDone[lastOp'.g]
      /\ objects[lastOp'.g] # <<>>
      /\ FitsChildren(lastOp'.g))
       => Geometry(St')
            = Geometry(Add([St EXCEPT !.layout[lastOp'.g] = "fit-content"],
                           lastOp'.g, lastOp'.objs, NoScript))
    ]_vars

\* ------------------------------------------------------- listener claims
InteractiveOptions == {NoOptions, [DefaultOptions EXCEPT !.interactive = TRUE]}

\* the group g2 is built from o1 and g1 from g2 and o2, interactive or not;
\* interactive is set, to another value and to the same one, and objects
\* are added, inserted and removed
WatchNext ==
  \/ Construct({"g2"}, {"o1"}, InteractiveOptions, {FALSE}, {NoPre})
  \/ Construct({"g1"}, {"g2", "o2"}, InteractiveOptions, {FALSE}, {NoPre})
  \/ DoSetInteractive({"g1", "g2"})
  \/ DoSetInteractiveSame({"g1", "g2"})
  \/ DoAdd({"g1", "g2"}, {"o1", "o2"})
  \/ DoInsertAt({"g1", "g2"}, {"o1", "o2"})
  \/ DoRemove({"g1", "g2"}, {"o1", "o2", "g2"})
  \/ DoRemoveAll({"g1", "g2"})

WatchSpec == Init /\ [][WatchNext]_vars

\* C32: the listeners of a group are on an object once when the group is
\* interactive and the object is in its child list, and not at all otherwise
C32_WatchedOnceIffMember ==
  \A g \in Groups, o \in Ids :
    watching[g][o] = IF interactive[g] /\ o \in Range(objects[g]) THEN 1 ELSE 0

\* ---------------------------------------------------------- frame claims
FrameOptions ==
  {NoOptions} \cup
  {[DefaultOptions EXCEPT !.angle = a, !.interactive = TRUE] : a \in {0, 90}}

\* the group g1 is built from the leaves, with or without a quarter turn in
\* its options; then its children are moved and layouts are requested
FrameNext ==
  \/ Construct({"g1"}, {"o1", "o2"}, FrameOptions, {FALSE}, {NoPre})
  \/ DoChildModified({"o1", "o2"}, ChildMoves)
  \/ DoTriggerLayout({"g1"}, {NoOverride}, {NoScript})

FrameSpec == Init /\ [][FrameNext]_vars

\* the step that opens the pass the i-th step belongs to
PassStart(steps, i) ==
  CHOOSE j \in 1..i :
    /\ steps[j].step = "vector" /\ steps[j].g = steps[i].g
    /\ \A k \in (j + 1)..i :
         ~(steps[k].step = "vector" /\ steps[k].g = steps[i].g)

\* the pass the i-th step belongs to sets the position of the group
Repositions(steps, i) ==
  \E k \in 1..Len(steps) :
    /\ steps[k].step = "position"
    /\ PassStart(steps, k) = PassStart(steps, i)

\* in the pass of the i-th step, a shift of a child, the size and the
\* position are set before it and nothing of the group is set after it
OwnBeforeChildren(steps, i) ==
  /\ \E k \in PassStart(steps, i)..i : steps[k].step = "size"
  /\ \E k \in PassStart(steps, i)..i : steps[k].step = "position"
  /\ \A k \in i..Len(steps) :
       steps[k].step \in {"size", "position", "transform"}
         => PassStart(steps, k) # PassStart(steps, i)

\* C33 as stated: in a pass that repositions the group, every shift of a
\* child comes after the size, the position and the initial angle are set,
\* and its displacement is the pass's vector in the group's frame as it is
\* at the shift, after the repositioning and the initial angle
C33_DiffInFrameAfter ==
  \A i \in 1..Len(lastOp.steps) :
    (lastOp.steps[i].step = "child" /\ Repositions(lastOp.steps, i))
      => /\ OwnBeforeChildren(lastOp.steps, i)
         /\ lastOp.steps[i].diff
              = InvRotate(lastOp.steps[i].angle,
                          lastOp.steps[PassStart(lastOp.steps, i)].diff)

\* C33 amended: in a pass that repositions the group, every shift of a
\* child comes after the size, the position and the initial angle are set,
\* and its displacement is the pass's vector in the group's frame as it is
\* when the pass begins, before an initial angle is set
C33_DiffInFrameBefore ==
  \A i \in 1..Len(lastOp.steps) :
    (lastOp.steps[i].step = "child" /\ Repositions(lastOp.steps, i))
      => /\ OwnBeforeChildren(lastOp.steps, i)
         /\ lastOp.steps[i].diff
              = InvRotate(lastOp.steps[PassStart(lastOp.steps, i)].angle,
                          lastOp.steps[PassStart(lastOp.steps, i)].diff)

\* C33 happens: a turned group has been repositioned by a pass after its
\* construction, and a child shifted by a displacement that the turn changes
C33_Witness ==
  /\ lastOp.op # "new" /\ lastOp.err = "none"
  /\ \E i \in 1..Len(lastOp.steps) :
       /\ lastOp.steps[i].step = "child"
       /\ Repositions(lastOp.steps, i)
       /\ lastOp.steps[i].angle = 90
       /\ lastOp.steps[i].diff
            # lastOp.steps[PassStart(lastOp.steps, i)].diff

\* ---------------------------------------------------------- shift claims
CenterOverrides ==
  {NoOverride,
   [NoOverride EXCEPT !.given = TRUE, !.hasCenter = TRUE, !.centerX = 6,
                      !.centerY = -2]}

\* the group g1 is built from the leaves, which are in the plane of the
\* canvas or in the group's; while no selection is there objects are added
\* to g1; selections are made and disposed of, and layouts are requested
ShiftNext ==
  \/ Construct({"g1"}, {"o1", "o2"}, {NoOptions, DefaultOptions}, BOOLEAN,
               {NoPre})
  \/ selected = <<>> /\ DoAdd({"g1"}, {"o1", "o2"})
  \/ built["g1"] /\ DoSelect({"o1", "o2"})
  \/ DoDispose
  \/ DoTriggerLayout({"g1"}, CenterOverrides, {NoScript})

ShiftSpec == Init /\ [][ShiftNext]_vars

\* the displacement of an object by a step
Shift(object) ==
  Pt(left'[object] - left[object], top'[object] - top[object])

\* C34: a construction or a layout request that returns leaves every object
\* of the child list whose group is not the group where it is, and shifts
\* all the children whose group is the group by the same displacement; a
\* construction from objects relative to the group shifts no child
C34_OnlyOwnedShifted ==
  [][(lastOp'.op \in {"new", "triggerLayout"} /\ lastOp'.err = "none")
       => /\ \A o \in Range(objects'[lastOp'.g]) :
               EffectiveGroup(St', o) # lastOp'.g => Shift(o) = Pt(0, 0)
          /\ \A o, p \in Range(objects'[lastOp'.g]) :
               (EffectiveGroup(St', o) = lastOp'.g
                  /\ EffectiveGroup(St', p) = lastOp'.g)
                 => Shift(o) = Shift(p)
          /\ \A o \in Range(objects'[lastOp'.g]) :
               (lastOp'.op = "new" /\ lastOp'.arg = <<TRUE>>)
                 => Shift(o) = Pt(0, 0)
    ]_vars

\* C34 happens: a layout request has shifted a child of the group while
\* another object of the child list was in the selection
C34_Witness ==
  /\ lastOp.op = "triggerLayout" /\ lastOp.err = "none"
  /\ \E i, j \in 1..Len(lastOp.steps) :
       /\ lastOp.steps[i].step = "position"
       /\ lastOp.steps[j].step = "child"
       /\ lastOp.steps[j].diff # Pt(0, 0)
  /\ \E o \in Range(objects[lastOp.g]) :
       EffectiveGroup(St, o) = TheSelection

\* ----------------------------------------------------------- guard claims
\* the group g1 is built from the leaves, or from nothing, in fit-content or
\* in fixed mode; objects are added to it and removed from it, and layouts
\* are requested, by code that raises an error while the result is applied
\* or by code that does not
GuardNext ==
  \/ Construct({"g1"}, {"o1", "o2"}, {NoOptions, FixedOptions}, {FALSE},
               {NoPre})
  \/ DoAdd({"g1"}, {"o1", "o2"})
  \/ DoRemove({"g1"}, {"o1", "o2"})
  \/ DoTriggerLayout({"g1"}, CenterOverrides, {NoScript} \cup ThrowScripts)

GuardSpec == Init /\ [][GuardNext]_vars

\* C35: between the operations, when no call of _applyLayoutStrategy is
\* running, no group is marked as having a layout in progress
C35_IdleBetweenPasses == \A g \in Groups : ~layoutInProgress[g]

\* ------------------------------------------------------- rendering claims
\* the group g1 is built from the leaves, with or without a canvas, which
\* preserves the stacking of the objects or not; while no selection is there
\* objects are added to g1; selections are made and disposed of, and g1 is
\* drawn
RenderNext ==
  \/ Construct({"g1"}, {"o1", "o2"}, CanvasOptions, {FALSE}, {NoPre})
  \/ DoSetPreserve
  \/ selected = <<>> /\ DoAdd({"g1"}, {"o1", "o2"})
  \/ built["g1"] /\ DoSelect({"o1", "o2"})
  \/ DoDispose
  \/ DoDrawObject({"g1"}, Filters)

RenderSpec == Init /\ [][RenderNext]_vars

\* the renderings of the object by the last operation
Renderings(object) ==
  {i \in 1..Len(lastOp.ret) : lastOp.ret[i].object = object}

\* C36: a drawObject call renders no object more than once; an object of the
\* child list whose group is not the group is not rendered when there is no
\* filter and the canvas does not preserve the stacking, and is rendered
\* under the inverse of the group's transform when the canvas preserves it
C36_RenderedAtMostOnce ==
  lastOp.op = "drawObject"
    => /\ \A o \in Ids : Cardinality(Renderings(o)) <= 1
       /\ \A o \in Range(objects[lastOp.g]) :
            EffectiveGroup(St, o) # lastOp.g
              => /\ (lastOp.arg[1] = NoFilter
                       /\ ~PreservesObjectStacking(St, lastOp.g))
                      => Renderings(o) = {}
                 /\ PreservesObjectStacking(St, lastOp.g)
                      => /\ Renderings(o) # {}
                         /\ \A i \in Renderings(o) : lastOp.ret[i].inverse

\* ------------------------------------------------------- emptying claims
FitOptions ==
  {NoOptions, [DefaultOptions EXCEPT !.layout = "fit-content-lazy"]}

\* the group g2 is built from the leaves and the group g1 from g2, g2 in
\* fit-content or in fit-content-lazy mode; objects are added to g2 and
\* removed from it, one by one or all at once
EmptyNext ==
  \/ Construct({"g2"}, {"o1", "o2"}, FitOptions, {FALSE}, {NoPre})
  \/ Construct({"g1"}, {"g2"}, {NoOptions}, {FALSE}, {NoPre})
  \/ DoAdd({"g2"}, {"o1", "o2"})
  \/ DoRemove({"g2"}, {"o1", "o2"})
  \/ DoRemoveAll({"g2"})

EmptySpec == Init /\ [][EmptyNext]_vars

\* C37: a remove or removeAll that returns and empties the child list of a
\* group in fit-content or fit-content-lazy mode leaves the width, height
\* and center of the group as they were; its 'removed' request changes no
\* geometry, calls no layout hook and is not passed on to the parent, and
\* the group is dirty afterwards
C37_EmptiedKeepsBox ==
  [][(/\ lastOp'.op \in {"remove", "removeAll"} /\ lastOp'.err = "none"
      /\ objects[lastOp'.g] # <<>>
      /\ objects'[lastOp'.g] = <<>>
      /\ layout[lastOp'.g] \in {"fit-content", "fit-content-lazy"})
       => /\ width'[lastOp'.g] = width[lastOp'.g]
          /\ height'[lastOp'.g] = height[lastOp'.g]
          /\ GetRelativeCenterPoint(St', lastOp'.g)
               = GetRelativeCenterPoint(St, lastOp'.g)
          /\ \E i \in 1..Len(lastOp'.trace) :
               /\ lastOp'.trace[i].g = lastOp'.g
               /\ lastOp'.trace[i].type = "removed"
          /\ \A i \in 1..Len(lastOp'.trace) :
               (lastOp'.trace[i].g = lastOp'.g
                  /\ lastOp'.trace[i].type = "removed")
                 => Inert(lastOp'.trace[i])
          /\ dirty'[lastOp'.g]
    ]_vars

\* C37 happens: the last child of a group that had its first layout, has a
\* size and lies in another group has been removed
C37_Witness ==
  /\ lastOp.op = "remove" /\ lastOp.err = "none"
  /\ lastOp.ret # <<>>
  /\ objects[lastOp.g] = <<>>
  /\ firstLayoutDone[lastOp.g]
  /\ group[lastOp.g] \in Groups
  /\ width[lastOp.g] > 0

\* ----------------------------------------------------------- event claims
\* the group g1 is built from the leaves, with or without a canvas; its
\* canvas is set, and modification events of the objects are fired
EventNext ==
  \/ Construct({"g1"}, {"o1", "o2"}, CanvasOptions, {FALSE}, {NoPre})
  \/ DoSetCanvas({"g1"})
  \/ DoFireEvent({"o1", "o2", "g1"}, ModificationEvents)

EventSpec == Init /\ [][EventNext]_vars

\* C38: fireEvent fires 'object:<eventName>' on the canvas of the target,
\* with the target under the key `target`, when the target has a canvas, and
\* then eventName on the target with the options it was given; nothing else
\* is fired, and both events have the target as the target of the transform
C38_CanvasThenTarget ==
  lastOp.op = "fireEvent"
    => /\ lastOp.ret
            = (IF canvas[lastOp.objs[1]] # None
               THEN <<[on |-> canvas[lastOp.objs[1]],
                       name |-> "object:" \o lastOp.arg[1],
                       options |-> [lastOp.arg[2] EXCEPT
                                      !.hasTarget = TRUE,
                                      !.target = lastOp.objs[1]]]>>
               ELSE <<>>)
              \o <<[on |-> lastOp.objs[1], name |-> lastOp.arg[1],
                    options |-> lastOp.arg[2]]>>
       /\ \A i \in 1..Len(lastOp.ret) :
            lastOp.ret[i].options.transform.target = lastOp.objs[1]

\* C38 happens: an event of an object that has a canvas has been fired with
\* options that have another object under the key `target`
C38_Witness ==
  /\ lastOp.op = "fireEvent"
  /\ canvas[lastOp.objs[1]] # None
  /\ lastOp.arg[2].hasTarget
  /\ lastOp.arg[2].target # lastOp.objs[1]
  /\ Len(lastOp.ret) = 2

\* ----------------------------------------------------- stroke projection
\* the points of the paths, and the value `undefined`
PathPoints ==
  [defined : {TRUE}, x : {0, 4}, y : {0, 4}]
    \ {[defined |-> TRUE, x |-> 0, y |-> 4]}
Undefined == [defined |-> FALSE, x |-> 0, y |-> 0]

\* lines 25-33: the points without those that equal the one before them
RECURSIVE Reduce(_, _, _)
Reduce(points, i, reduced) ==
  IF i > Len(points) THEN reduced
  ELSE Reduce(points, i + 1,
              IF reduced[Len(reduced)] # points[i]
              THEN Append(reduced, points[i]) ELSE reduced)

\* findIndexRight(reduced, (point) => !point.eq(start)), counted from 1: the
\* place of the last point that differs from start, 0 when there is none
RECURSIVE FindIndexRight(_, _, _)
FindIndexRight(reduced, start, i) ==
  IF i = 0 THEN 0
  ELSE IF reduced[i] # start THEN i
  ELSE FindIndexRight(reduced, start, i - 1)

\* lines 35-36: a path of one point is taken as open
IsOpenPath(reduced, openPath) == Len(reduced) = 1 \/ openPath

\* lines 35-43: the points that equal the first one are taken from the end
\* of a closed path
Trimmed(reduced, openPath) ==
  IF IsOpenPath(reduced, openPath) THEN reduced
  ELSE SubSeq(reduced, 1, FindIndexRight(reduced, reduced[1], Len(reduced)))

\* points[index] of JavaScript, index counted from 1: undefined outside the
\* list
ElementAt(points, index) ==
  IF index \in 1..Len(points) THEN points[index] ELSE Undefined

\* lines 46-56: the neighbours B and C of the point at index
NeighbourB(points, index, openPath) ==
  IF index = 1
  THEN (IF openPath THEN points[index] ELSE ElementAt(points, Len(points)))
  ELSE ElementAt(points, index - 1)
NeighbourC(points, index, openPath) ==
  IF index = 1 THEN ElementAt(points, 2)
  ELSE IF index = Len(points)
  THEN (IF openPath THEN points[index] ELSE ElementAt(points, 1))
  ELSE ElementAt(points, index + 1)

\* lines 58-70: the projection made for the point at index, with the points
\* it is handed
Projection(points, index, openPath) ==
  IF openPath /\ (index = 1 \/ index = Len(points))
  THEN [kind |-> "cap", A |-> points[index],
        neighbours |-> <<IF index = 1 THEN NeighbourC(points, index, openPath)
                         ELSE NeighbourB(points, index, openPath)>>]
  ELSE [kind |-> "join", A |-> points[index],
        neighbours |-> <<NeighbourB(points, index, openPath),
                         NeighbourC(points, index, openPath)>>]

\* projectStrokeOnPoints(points, options, openPath): the reduced list, the
\* path taken as open or not, and the projections made, in order
ProjectStrokeOnPoints(points, openPath) ==
  IF Len(points) = 0
  THEN [reduced |-> <<>>, openPath |-> openPath, projections |-> <<>>]
  ELSE LET reduced == Reduce(points, 1, <<points[1]>>)
           open == IsOpenPath(reduced, openPath)
           trimmed == Trimmed(reduced, openPath)
       IN [reduced |-> trimmed, openPath |-> open,
           projections |->
             [index \in 1..Len(trimmed) |-> Projection(trimmed, index, open)]]

\* projectStrokeOnPoints(points, options, openPath)
DoProjectStroke ==
  \E points \in {<<>>} \cup ListsUpTo(PathPoints, MaxPoints),
     openPath \in BOOLEAN :
    /\ Len(points) <= MaxPoints
    /\ CommitWith(
         [St EXCEPT !.ret = <<ProjectStrokeOnPoints(points, openPath)>>],
         "projectStroke", None, <<>>, <<points, openPath>>)

StrokeNext == DoProjectStroke

StrokeSpec == Init /\ [][StrokeNext]_vars

\* C39: projectStrokeOnPoints makes no projection of an empty list; of any
\* other list, the reduced list has no two equal points in a row, the last
\* point of a path taken as closed differs from the first, and every
\* neighbour handed to a projection is a point of the reduced list
C39_NeighboursDefined ==
  lastOp.op = "projectStroke"
    => /\ lastOp.arg[1] = <<>> => lastOp.ret[1].projections = <<>>
       /\ lastOp.arg[1] # <<>>
            => /\ lastOp.ret[1].reduced # <<>>
               /\ \A i \in 1..(Len(lastOp.ret[1].reduced) - 1) :
                    lastOp.ret[1].reduced[i] # lastOp.ret[1].reduced[i + 1]
               /\ ~lastOp.ret[1].openPath
                    => lastOp.ret[1].reduced[Len(lastOp.ret[1].reduced)]
                         # lastOp.ret[1].reduced[1]
               /\ \A i \in 1..Len(lastOp.ret[1].projections) :
                    \A j \in 1..Len(lastOp.ret[1].projections[i].neighbours) :
                      lastOp.ret[1].projections[i].neighbours[j]
                        \in Range(lastOp.ret[1].reduced)

====
